---- MODULE Spec2Model ----
(***************************************************************************)
(* Withings MCP: OAuth token lifecycle.                                    *)
(*                                                                         *)
(* Two variants of the service live in the repository:                     *)
(*   app/  - the FastAPI application of app/main.py: the background        *)
(*           scheduler (app/services/scheduler.py), the token refresh      *)
(*           service (app/services/token_refresh.py), the Railway client   *)
(*           (app/services/railway_client.py) and the admin routes         *)
(*           (app/routes/admin.py).  Specifications: SpecSched,            *)
(*           FairSpecSched (the scheduler), SpecAdmin (the refresh route), *)
(*           Spec (both), SpecGate (the four gated routes under every      *)
(*           configuration of the gate), SpecService (the token refresh    *)
(*           service alone), SpecPublish (the Railway client alone),       *)
(*           SpecServices (both services), SpecRefreshTime and SpecExpiry  *)
(*           (should_refresh_now and get_next_refresh_time).               *)
(*   src/  - the admin route of src/routes/admin.py, which keeps the       *)
(*           tokens in os.environ and persists them to Railway with two    *)
(*           variableUpsert calls, and the data routes of                  *)
(*           src/routes/data.py.  Specifications: SpecSrc, SpecData.       *)
(*           The database tokens of src/routes/auth.py and                 *)
(*           src/withings_client.py: SpecFrame, which runs one request in  *)
(*           one of the three places that hold tokens.  What is logged of  *)
(*           a token: SpecLogging.                                         *)
(*                                                                         *)
(* Tokens are natural numbers (0 is None / the empty string); the n-th     *)
(* successful vendor response issues the pair numbered n.  Times are       *)
(* seconds.                                                                *)
(***************************************************************************)
EXTENDS Integers, FiniteSets, Sequences, TLC

VARIABLES
    _scheduler_running,  \* scheduler.py:18
    _scheduler_task,     \* scheduler.py:17, 0 is None, else a task id
    task,                \* the asyncio tasks created so far, by id
    cycles,              \* number of refresh_token_job() runs so far
    last_cycle,          \* the latest refresh_token_job(): what it logged, and whether
                         \* the stored refresh token was a rejected one when it ran
    sched_sent,          \* the refresh tokens the scheduler has sent to the vendor, in order
    sched_log,           \* what the latest start_scheduler/stop_scheduler call logged
    now,                 \* the clock, datetime.now(timezone.utc)
    env,                 \* os.environ of the process
    store,               \* the Railway variables of the service (external store)
    issued,              \* number of token pairs the vendor has issued
    rejected,            \* refresh tokens an attempt has answered status 26 for
    results,             \* the Success results the refreshes have produced, in order
    req,                 \* the manual refresh requests, by number
    resp,                \* the response each request has been answered with
    ACCESS_TOKEN,        \* src/routes/data.py:21, read from os.environ at import
    data_call,           \* the latest call of fetch_withings_data()
    token_record         \* the TokenRecord row of the user (src/models.py), committed

vars == <<_scheduler_running, _scheduler_task, task, cycles, last_cycle, sched_sent,
          sched_log, now, env, store, issued, rejected, results, req, resp,
          ACCESS_TOKEN, data_call, token_record>>

dataVars == <<ACCESS_TOKEN, data_call, token_record>>

appVars == <<now, env, store, issued, rejected, results, req, resp>>

schedVars == <<_scheduler_running, _scheduler_task, task, cycles, last_cycle,
               sched_sent, sched_log>>

----------------------------------------------------------------------------
(* Bounds of the model *)

MaxTasks == 3
MaxCycles == 2
MaxIssued == 3
MaxTime == 1
NReq == 2
MaxHours == 4
MaxBufferHours == 2
MaxTokenLength == 42
MaxLog == 2

(* Program constants *)

REFRESH_INTERVAL_SECONDS == 7200
STARTUP_DELAY_SECONDS == 30
ERROR_BACKOFF_SECONDS == 60

None == 0

\* WithingsTokenRefreshService: Withings API status codes
STATUS_SUCCESS == 0
STATUS_INVALID_REFRESH_TOKEN == 26
STATUS_INVALID_AUTHORIZATION_CODE == 29

\* the expires_in of _parse_token_response when the body has none (14 days)
DEFAULT_EXPIRES_IN == 1209600

\* the lifetime the vendor gives an access token (3 hours)
VENDOR_EXPIRES_IN == 10800

\* the values an X-Admin-Token header can have: absent, the secret, another
Headers == {None, 1, 2}

\* the environments the process is deployed with
Environments ==
    {[WITHINGS_CLIENT_ID |-> cid, WITHINGS_CLIENT_SECRET |-> 1,
      WITHINGS_ACCESS_TOKEN |-> 1, WITHINGS_REFRESH_TOKEN |-> 1,
      WITHINGS_TOKEN_EXPIRES_AT |-> VENDOR_EXPIRES_IN,
      WITHINGS_TOKEN_LAST_REFRESHED |-> 0,
      ADMIN_API_TOKEN |-> 1, ENVIRONMENT |-> "production",
      RAILWAY_API_TOKEN |-> rat, RAILWAY_PROJECT_ID |-> 1,
      RAILWAY_SERVICE_ID |-> 1, RAILWAY_ENVIRONMENT_ID |-> 1]
       : cid \in {None, 1}, rat \in {None, 1}}

TaskIds == 1..MaxTasks
Requests == 1..NReq

----------------------------------------------------------------------------
(* app/services/scheduler.py *)

NoTask == [pc |-> "none", secs |-> 0, fired |-> FALSE, must_cancel |-> FALSE]

Done == [pc |-> "done", secs |-> 0, fired |-> FALSE, must_cancel |-> FALSE]

\* asyncio.Task.done()
TaskDone(t) == task[t].pc = "done"

\* a task that has been created and has not finished
TaskActive(t) == task[t].pc \notin {"none", "done"}

ActiveTasks == {t \in TaskIds : TaskActive(t)}

Sleeping(t) == task[t].pc \in {"startup_sleep", "interval_sleep", "backoff_sleep"}

\* a job that reaches the vendor with the stored refresh token
refresh_token_job_refreshing ==
    [outcome |-> "returned", logged |-> "error",
     sent |-> <<env.WITHINGS_REFRESH_TOKEN>>]

\* refresh_token_job(): the import of TokenRefreshService from
\* app.services.token_refresh raises ImportError (the module defines
\* WithingsTokenRefreshService only); `except Exception` logs it and the job
\* returns.  No request leaves the process.
refresh_token_job ==
    [outcome |-> "returned", logged |-> "error", sent |-> <<>>]

\* a loop that ends after its first job
scheduler_loop_break_after_job(outcome) ==
    [pc |-> "done", secs |-> 0]

\* scheduler_loop(), lines 58-72: where the loop sleeps after one job
scheduler_loop_after_job(outcome) ==
    IF outcome = "returned"
    THEN [pc |-> "interval_sleep", secs |-> REFRESH_INTERVAL_SECONDS]
    ELSE [pc |-> "backoff_sleep", secs |-> ERROR_BACKOFF_SECONDS]

\* a guard that trusts the flag instead of the task
start_scheduler_guard_flag ==
    _scheduler_running

\* start_scheduler(), line 83: the guard
start_scheduler_guard ==
    _scheduler_task # None /\ ~TaskDone(_scheduler_task)

NextTaskId == Cardinality({t \in TaskIds : task[t].pc # "none"}) + 1

start_scheduler ==
    /\ IF start_scheduler_guard
       THEN /\ sched_log' = "already_running"
            /\ UNCHANGED <<_scheduler_running, _scheduler_task, task>>
       ELSE /\ NextTaskId \in TaskIds
            /\ _scheduler_running' = TRUE
            /\ _scheduler_task' = NextTaskId
            /\ task' = [task EXCEPT ![NextTaskId] = [NoTask EXCEPT !.pc = "created"]]
            /\ sched_log' = "started"
    /\ UNCHANGED <<cycles, last_cycle, sched_sent>>
    /\ UNCHANGED <<appVars, dataVars>>

\* a stop that clears the flag and leaves the task alone
stop_scheduler_no_cancel(t) ==
    task

\* stop_scheduler(), line 101: Task.cancel() on a task that is not done
\* requests the cancellation; the task sees it at its next step
stop_scheduler_cancel(t) ==
    IF TaskDone(t) THEN task ELSE [task EXCEPT ![t].must_cancel = TRUE]

stop_scheduler ==
    /\ _scheduler_running' = FALSE
    /\ IF _scheduler_task # None
       THEN /\ task' = stop_scheduler_cancel(_scheduler_task)
            /\ sched_log' = "stopped"
       ELSE UNCHANGED <<task, sched_log>>
    /\ UNCHANGED <<_scheduler_task, cycles, last_cycle, sched_sent>>
    /\ UNCHANGED <<appVars, dataVars>>

\* get_scheduler_status(), lines 112-117
get_scheduler_status ==
    [running |-> _scheduler_running,
     task_active |-> _scheduler_task # None /\ ~TaskDone(_scheduler_task),
     refresh_interval_seconds |-> REFRESH_INTERVAL_SECONDS]

\* the event loop's timer of asyncio.sleep(secs) fires (Task.cancel() cancels
\* the sleep and its timer with it)
TimerFires(t) ==
    /\ Sleeping(t)
    /\ ~task[t].fired
    /\ ~task[t].must_cancel
    /\ task' = [task EXCEPT ![t].fired = TRUE]
    /\ UNCHANGED <<_scheduler_running, _scheduler_task, cycles, last_cycle, sched_sent,
                   sched_log>>
    /\ UNCHANGED <<appVars, dataVars>>

\* A cancelled task gets CancelledError at the await it is suspended at (or
\* before its first step).  In the startup sleep (line 55) and in the backoff
\* sleep (line 72) nothing catches it; in the interval sleep (line 64) the
\* loop catches it and breaks.  The task is done in every case.
TaskCancelled(t) ==
    /\ TaskActive(t)
    /\ task[t].must_cancel
    /\ task' = [task EXCEPT ![t] = Done]
    /\ UNCHANGED <<_scheduler_running, _scheduler_task, cycles, last_cycle, sched_sent,
                   sched_log>>
    /\ UNCHANGED <<appVars, dataVars>>

\* The first step of the task: scheduler_loop() runs to asyncio.sleep(30).
TaskStarts(t) ==
    /\ task[t].pc = "created"
    /\ ~task[t].must_cancel
    /\ task' = [task EXCEPT ![t] = [pc |-> "startup_sleep",
                                    secs |-> STARTUP_DELAY_SECONDS,
                                    fired |-> FALSE, must_cancel |-> FALSE]]
    /\ UNCHANGED <<_scheduler_running, _scheduler_task, cycles, last_cycle, sched_sent,
                   sched_log>>
    /\ UNCHANGED <<appVars, dataVars>>

\* A sleep has elapsed and the task resumes: `while _scheduler_running`, then
\* one refresh_token_job() and the next sleep, with no await in between.
TaskWakes(t) ==
    /\ Sleeping(t)
    /\ task[t].fired
    /\ ~task[t].must_cancel
    /\ IF ~_scheduler_running
       THEN /\ task' = [task EXCEPT ![t] = Done]
            /\ UNCHANGED <<cycles, last_cycle, sched_sent>>
       ELSE /\ cycles < MaxCycles
            /\ LET job == refresh_token_job
                   nxt == scheduler_loop_after_job(job.outcome)
               IN /\ cycles' = cycles + 1
                  /\ last_cycle' =
                        [logged |-> job.logged,
                         rejected_token |-> env.WITHINGS_REFRESH_TOKEN \in rejected]
                  /\ sched_sent' = sched_sent \o job.sent
                  /\ task' = [task EXCEPT ![t] = [pc |-> nxt.pc, secs |-> nxt.secs,
                                                  fired |-> FALSE,
                                                  must_cancel |-> FALSE]]
    /\ UNCHANGED <<_scheduler_running, _scheduler_task, sched_log>>
    /\ UNCHANGED <<appVars, dataVars>>

----------------------------------------------------------------------------
(* The vendor's OAuth token endpoint, as the process sees it *)

\* the JSON documents the endpoint can answer a refresh of token `sent` with
VendorData(sent) ==
    {[has_status |-> TRUE, status |-> 0, access_token |-> issued + 1,
      refresh_token |-> rt, has_expires_in |-> ei, expires_in |-> VENDOR_EXPIRES_IN,
      has_error |-> FALSE] : rt \in {sent, issued + 1}, ei \in BOOLEAN}
    \cup
    {[has_status |-> hs, status |-> st, access_token |-> None, refresh_token |-> None,
      has_expires_in |-> FALSE, expires_in |-> 0, has_error |-> he]
       : hs \in BOOLEAN, st \in {0, 26, 29, 503}, he \in BOOLEAN}

\* the reply carries a token pair the vendor has issued for it
Issues(reply) ==
    reply.kind = "json" /\ reply.data.access_token # None

\* what one POST to the endpoint can end in: a timeout, an HTTP error
\* status, another transport error, a body that is not the JSON object the
\* caller reads ("malformed"), or a JSON document
VendorReplies(sent) ==
    {[kind |-> k, data |-> None] : k \in {"timeout", "http_error", "error", "malformed"}}
    \cup {[kind |-> "json", data |-> d] : d \in VendorData(sent)}

----------------------------------------------------------------------------
(* app/services/token_refresh.py *)

NoResult ==
    [status |-> "none", access_token |-> None, refresh_token |-> None,
     expires_in |-> None, expires_at |-> None, error_message |-> "none",
     timestamp |-> None]

\* a TokenRefreshResult without tokens (timestamp: __post_init__, lines 48-50)
Failure(status, msg) ==
    [NoResult EXCEPT !.status = status, !.error_message = msg, !.timestamp = now]

\* TokenRefreshResult.is_success
is_success(result) == result.status = "success"

\* a flag that is never set
requires_reauthorization_never(result) ==
    FALSE

\* TokenRefreshResult.requires_reauthorization
requires_reauthorization(result) == result.status = "invalid_refresh_token"

\* WithingsTokenRefreshService._validate_configuration
_validate_configuration ==
    IF env.WITHINGS_CLIENT_ID = None
    THEN [ok |-> FALSE, msg |-> "WITHINGS_CLIENT_ID not configured"]
    ELSE IF env.WITHINGS_CLIENT_SECRET = None
    THEN [ok |-> FALSE, msg |-> "WITHINGS_CLIENT_SECRET not configured"]
    ELSE [ok |-> TRUE, msg |-> "none"]

\* a parser that knows the success sentinel only, and reads a document
\* without a status as a success
_parse_token_response_lenient(data) ==
    IF data.has_status /\ data.status # STATUS_SUCCESS
    THEN Failure("api_error", IF data.has_error THEN "vendor error" ELSE "unknown error")
    ELSE [status |-> "success", access_token |-> data.access_token,
          refresh_token |-> data.refresh_token, expires_in |-> DEFAULT_EXPIRES_IN,
          expires_at |-> now + DEFAULT_EXPIRES_IN, error_message |-> "none",
          timestamp |-> now]

\* WithingsTokenRefreshService._parse_token_response
_parse_token_response(data) ==
    LET status == IF data.has_status THEN data.status ELSE -1
    IN IF status = STATUS_SUCCESS
       THEN LET expires_in == IF data.has_expires_in THEN data.expires_in
                              ELSE DEFAULT_EXPIRES_IN
            IN [status |-> "success",
                access_token |-> data.access_token,
                refresh_token |-> data.refresh_token,
                expires_in |-> expires_in,
                expires_at |-> now + expires_in,
                error_message |-> "none",
                timestamp |-> now]
       ELSE IF status = STATUS_INVALID_REFRESH_TOKEN
       THEN Failure("invalid_refresh_token", "must re-authorize")
       ELSE IF status = STATUS_INVALID_AUTHORIZATION_CODE
       THEN Failure("invalid_grant", "code invalid")
       ELSE Failure("api_error", IF data.has_error THEN "vendor error" ELSE "unknown error")

\* a call that checks the client id only before it posts
refresh_token_before_post_unchecked(refresh_token) ==
    IF env.WITHINGS_CLIENT_ID = None
    THEN [post |-> FALSE, sent |-> None,
          result |-> Failure("configuration_error", "WITHINGS_CLIENT_ID not configured")]
    ELSE [post |-> TRUE,
          sent |-> IF refresh_token # None THEN refresh_token
                   ELSE env.WITHINGS_REFRESH_TOKEN,
          result |-> NoResult]

\* WithingsTokenRefreshService.refresh_token, lines 143-159: what the call
\* does before its POST, for the explicit token `refresh_token` (None: absent)
refresh_token_before_post(refresh_token) ==
    LET cfg == _validate_configuration
        tok == IF refresh_token # None THEN refresh_token ELSE env.WITHINGS_REFRESH_TOKEN
    IN IF ~cfg.ok
       THEN [post |-> FALSE, sent |-> None,
             result |-> Failure("configuration_error", cfg.msg)]
       ELSE IF tok = None
       THEN [post |-> FALSE, sent |-> None,
             result |-> Failure("configuration_error",
                                "WITHINGS_REFRESH_TOKEN not configured")]
       ELSE [post |-> TRUE, sent |-> tok, result |-> NoResult]

\* the values of the TokenRefreshStatus enum
TokenRefreshStatus ==
    {"success", "invalid_refresh_token", "invalid_grant", "network_error", "api_error",
     "configuration_error"}

\* an exception that leaves the call: the caller gets no result
Raised(exception) == Failure("raised", exception)

\* a call whose try block has the handler of the timeout only
refresh_token_after_post_uncaught(reply) ==
    CASE reply.kind = "json" -> _parse_token_response(reply.data)
      [] reply.kind = "timeout" -> Failure("network_error", "timed out")
      [] OTHER -> Raised(reply.kind)

\* WithingsTokenRefreshService.refresh_token, lines 172-201: the result for
\* what the POST ended in.  The POST, raise_for_status(), response.json() and
\* the parser run inside the try block, whose last handler is
\* `except Exception`.
refresh_token_after_post(reply) ==
    CASE reply.kind = "json" -> _parse_token_response(reply.data)
      [] reply.kind = "timeout" -> Failure("network_error", "timed out")
      [] reply.kind = "http_error" -> Failure("api_error", "http status")
      [] OTHER -> Failure("api_error", "exception")

\* WithingsTokenRefreshService.exchange_authorization_code, lines 216-232:
\* what the call does before its POST
exchange_authorization_code_before_post(code) ==
    LET cfg == _validate_configuration
    IN IF ~cfg.ok
       THEN [post |-> FALSE, sent |-> None,
             result |-> Failure("configuration_error", cfg.msg)]
       ELSE [post |-> TRUE, sent |-> code, result |-> NoResult]

\* WithingsTokenRefreshService.exchange_authorization_code, lines 234-251:
\* the result for what the POST ended in; one `except Exception` catches
\* the timeout, the HTTP status error and everything else
exchange_authorization_code_after_post(reply) ==
    CASE reply.kind = "json" -> _parse_token_response(reply.data)
      [] OTHER -> Failure("api_error", "exception")

\* timedelta(hours=1) in seconds
SECONDS_PER_HOUR == 3600

\* buffer_hours when the caller gives none
DEFAULT_BUFFER_HOURS == 24

\* the expiry get_next_refresh_time assumes when it knows none (14 days)
UNKNOWN_EXPIRES_IN == 1209600

\* a refresh time that leaves the buffer out
get_next_refresh_time_no_buffer(expires_at, buffer_hours) ==
    IF expires_at # None THEN expires_at
    ELSE IF env.WITHINGS_TOKEN_EXPIRES_AT # None
    THEN env.WITHINGS_TOKEN_EXPIRES_AT
    ELSE now + UNKNOWN_EXPIRES_IN

\* WithingsTokenRefreshService.get_next_refresh_time
get_next_refresh_time(expires_at, buffer_hours) ==
    LET e == IF expires_at # None THEN expires_at
             ELSE IF env.WITHINGS_TOKEN_EXPIRES_AT # None
             THEN env.WITHINGS_TOKEN_EXPIRES_AT
             ELSE now + UNKNOWN_EXPIRES_IN
    IN e - buffer_hours * SECONDS_PER_HOUR

\* a check that is late by one instant
should_refresh_now_strict(expires_at, buffer_hours) ==
    now > get_next_refresh_time(expires_at, buffer_hours)

\* WithingsTokenRefreshService.should_refresh_now
should_refresh_now(expires_at, buffer_hours) ==
    now >= get_next_refresh_time(expires_at, buffer_hours)

\* the expiry times and the buffers the two functions are called with
ExpiryInputs == {None} \cup {k * SECONDS_PER_HOUR : k \in 1..MaxHours}

BufferInputs == (0..MaxBufferHours) \cup {DEFAULT_BUFFER_HOURS}

\* A caller of the two functions: the call it has made
NoTimeCall ==
    [pc |-> "idle", expires_at |-> None, buffer_hours |-> 0]

NoTimeResponse ==
    [should_refresh |-> FALSE, next_refresh |-> 0, at |-> 0]

\* service.should_refresh_now(expires_at, buffer_hours) and
\* service.get_next_refresh_time(expires_at, buffer_hours), called at `now`
call_should_refresh_now(r) ==
    /\ \E expires_at \in ExpiryInputs, buffer_hours \in BufferInputs :
          /\ req' = [req EXCEPT ![r] = [pc |-> "returned", expires_at |-> expires_at,
                                        buffer_hours |-> buffer_hours]]
          /\ resp' = [resp EXCEPT ![r] =
                         [should_refresh |-> should_refresh_now(expires_at, buffer_hours),
                          next_refresh |-> get_next_refresh_time(expires_at, buffer_hours),
                          at |-> now]]
    /\ UNCHANGED <<now, env, store, issued, rejected, results>>
    /\ UNCHANGED <<schedVars, dataVars>>

\* A caller of the service: the call it has made, and what came of it
SvcIdle ==
    [pc |-> "idle", op |-> "none", arg |-> None, sent |-> None,
     reply |-> [kind |-> "none", data |-> None]]

\* `posts` counts the POSTs the call has made to the vendor
NoSvcResponse == [result |-> NoResult, posts |-> 0]

\* await service.refresh_token(refresh_token), up to its POST
service_refresh_token(r) ==
    /\ req[r].pc = "idle"
    /\ \E refresh_token \in {None, 1, 2} :
          LET call == refresh_token_before_post(refresh_token)
          IN /\ req' = [req EXCEPT ![r] =
                            [SvcIdle EXCEPT !.pc = IF call.post THEN "posted"
                                                   ELSE "returned",
                                            !.op = "refresh_token",
                                            !.arg = refresh_token,
                                            !.sent = call.sent]]
             /\ resp' = [resp EXCEPT ![r] =
                            [result |-> call.result,
                             posts |-> IF call.post THEN 1 ELSE 0]]
    /\ UNCHANGED <<now, env, store, issued, rejected, results>>
    /\ UNCHANGED <<schedVars, dataVars>>

\* await service.exchange_authorization_code(code), up to its POST
service_exchange_authorization_code(r) ==
    /\ req[r].pc = "idle"
    /\ \E code \in {1, 2} :
          LET call == exchange_authorization_code_before_post(code)
          IN /\ req' = [req EXCEPT ![r] =
                            [SvcIdle EXCEPT !.pc = IF call.post THEN "posted"
                                                   ELSE "returned",
                                            !.op = "exchange_authorization_code",
                                            !.arg = code,
                                            !.sent = call.sent]]
             /\ resp' = [resp EXCEPT ![r] =
                            [result |-> call.result,
                             posts |-> IF call.post THEN 1 ELSE 0]]
    /\ UNCHANGED <<now, env, store, issued, rejected, results>>
    /\ UNCHANGED <<schedVars, dataVars>>

\* the POST of the call ends (answered, failed or timed out after 30 s) and
\* the call returns its result
service_post_ends(r) ==
    /\ req[r].pc = "posted"
    /\ \E reply \in VendorReplies(IF req[r].op = "refresh_token" THEN req[r].sent
                                   ELSE issued + 1) :
          LET result == IF req[r].op = "refresh_token"
                        THEN refresh_token_after_post(reply)
                        ELSE exchange_authorization_code_after_post(reply)
          IN /\ Issues(reply) => issued < MaxIssued
             /\ issued' = IF Issues(reply) THEN issued + 1 ELSE issued
             /\ results' = IF is_success(result) THEN Append(results, result)
                           ELSE results
             /\ rejected' = IF requires_reauthorization(result)
                            THEN rejected \cup {req[r].sent} ELSE rejected
             /\ req' = [req EXCEPT ![r].pc = "returned", ![r].reply = reply]
             /\ resp' = [resp EXCEPT ![r].result = result]
    /\ UNCHANGED <<now, env, store>>
    /\ UNCHANGED <<schedVars, dataVars>>

\* service.should_refresh_now(result.expires_at, buffer_hours), called by r
\* with the expiry of the Success that caller q has got
should_refresh_after(r, q) ==
    /\ req[q].pc = "returned"
    /\ is_success(resp[q].result)
    /\ \E buffer_hours \in BufferInputs :
          LET expires_at == resp[q].result.expires_at
          IN /\ req' = [req EXCEPT ![r] = [pc |-> "returned", expires_at |-> expires_at,
                                           buffer_hours |-> buffer_hours]]
             /\ resp' = [resp EXCEPT ![r] =
                            [should_refresh |-> should_refresh_now(expires_at, buffer_hours),
                             next_refresh |-> get_next_refresh_time(expires_at, buffer_hours),
                             at |-> now]]
    /\ UNCHANGED <<now, env, store, issued, rejected, results>>
    /\ UNCHANGED <<schedVars, dataVars>>

----------------------------------------------------------------------------
(* app/services/railway_client.py *)

\* RailwayClient._validate_configuration (environment_id defaults to
\* "production", line 101)
railway_validate_configuration ==
    IF env.RAILWAY_API_TOKEN = None
    THEN [ok |-> FALSE, msg |-> "RAILWAY_API_TOKEN not configured"]
    ELSE IF env.RAILWAY_PROJECT_ID = None
    THEN [ok |-> FALSE, msg |-> "RAILWAY_PROJECT_ID not configured"]
    ELSE IF env.RAILWAY_SERVICE_ID = None
    THEN [ok |-> FALSE, msg |-> "RAILWAY_SERVICE_ID not configured"]
    ELSE [ok |-> TRUE, msg |-> "none"]

\* the configuration names an error message of _validate_configuration has
NamesIn(msg) ==
    {n \in {"RAILWAY_API_TOKEN", "RAILWAY_PROJECT_ID", "RAILWAY_SERVICE_ID",
            "RAILWAY_ENVIRONMENT_ID"} :
        \/ (n = "RAILWAY_API_TOKEN" /\ msg = "RAILWAY_API_TOKEN not configured")
        \/ (n = "RAILWAY_PROJECT_ID" /\ msg = "RAILWAY_PROJECT_ID not configured")
        \/ (n = "RAILWAY_SERVICE_ID" /\ msg = "RAILWAY_SERVICE_ID not configured")}

\* what one POST to the Railway API can end in
RailwayReplies == {"ok", "errors", "http_401", "http_error", "error", "malformed"}

\* a client that takes every answer for a success
update_environment_variables_status_lenient(reply) ==
    "success"

\* the values of the RailwayUpdateStatus enum
RailwayUpdateStatus ==
    {"success", "partial_success", "authentication_error", "project_not_found",
     "service_not_found", "api_error", "configuration_error", "deployment_pending",
     "deployment_failed"}

\* RailwayClient.update_environment_variables, lines 192-235: the status for
\* what the POST ended in
update_environment_variables_status(reply) ==
    CASE reply = "ok" -> "success"
      [] reply = "http_401" -> "authentication_error"
      [] OTHER -> "api_error"

\* the variableCollectionUpsert mutation, lines 158-163 and 171-190: the four
\* variables are written by one call
variableCollectionUpsert(result) ==
    [WITHINGS_ACCESS_TOKEN |-> result.access_token,
     WITHINGS_REFRESH_TOKEN |-> result.refresh_token,
     WITHINGS_TOKEN_EXPIRES_AT |-> result.expires_at,
     WITHINGS_TOKEN_LAST_REFRESHED |-> now]

\* RailwayClient.trigger_deployment, lines 277-309
trigger_deployment_status(reply) ==
    CASE reply = "ok" -> "deployment_pending"
      [] reply = "errors" -> "api_error"
      [] OTHER -> "deployment_failed"

\* A caller of the Railway client: the call it has made
PubIdle ==
    [pc |-> "idle", op |-> "none", access_token |-> None, refresh_token |-> None,
     expires_at |-> None]

\* RailwayUpdateResult; `posts` counts the POSTs the call has made to Railway
NoPubResponse ==
    [status |-> "none", error_message |-> "none", variables_updated |-> {}, posts |-> 0]

\* await railway_client.update_environment_variables(...), lines 148-199, up
\* to its POST
railway_update_environment_variables(r) ==
    /\ req[r].pc = "idle"
    /\ \E access_token \in {1, 2}, refresh_token \in {1, 2} :
          LET cfg == railway_validate_configuration
          IN /\ req' = [req EXCEPT ![r] =
                            [pc |-> IF cfg.ok THEN "posted" ELSE "returned",
                             op |-> "update_environment_variables",
                             access_token |-> access_token,
                             refresh_token |-> refresh_token,
                             expires_at |-> now + VENDOR_EXPIRES_IN]]
             /\ resp' = [resp EXCEPT ![r] =
                            IF cfg.ok THEN [NoPubResponse EXCEPT !.posts = 1]
                            ELSE [NoPubResponse EXCEPT
                                      !.status = "configuration_error",
                                      !.error_message = cfg.msg]]
    /\ UNCHANGED <<now, env, store, issued, rejected, results>>
    /\ UNCHANGED <<schedVars, dataVars>>

\* await railway_client.trigger_deployment(), lines 247-276, up to its POST
railway_trigger_deployment(r) ==
    /\ req[r].pc = "idle"
    /\ LET cfg == railway_validate_configuration
       IN /\ req' = [req EXCEPT ![r] =
                         [PubIdle EXCEPT !.pc = IF cfg.ok THEN "posted" ELSE "returned",
                                         !.op = "trigger_deployment"]]
          /\ resp' = [resp EXCEPT ![r] =
                         IF cfg.ok THEN [NoPubResponse EXCEPT !.posts = 1]
                         ELSE [NoPubResponse EXCEPT
                                   !.status = "configuration_error",
                                   !.error_message = cfg.msg]]
    /\ UNCHANGED <<now, env, store, issued, rejected, results>>
    /\ UNCHANGED <<schedVars, dataVars>>

\* the POST of the call ends and the call returns its result
railway_post_ends(r) ==
    /\ req[r].pc = "posted"
    /\ \E reply \in RailwayReplies :
          IF req[r].op = "update_environment_variables"
          THEN /\ store' = IF reply = "ok" THEN variableCollectionUpsert(req[r])
                           ELSE store
               /\ resp' = [resp EXCEPT
                              ![r].status = update_environment_variables_status(reply),
                              ![r].error_message = IF reply = "ok" THEN "none" ELSE reply,
                              ![r].variables_updated =
                                  IF reply = "ok"
                                  THEN {"WITHINGS_ACCESS_TOKEN", "WITHINGS_REFRESH_TOKEN",
                                        "WITHINGS_TOKEN_EXPIRES_AT",
                                        "WITHINGS_TOKEN_LAST_REFRESHED"}
                                  ELSE {}]
          ELSE /\ resp' = [resp EXCEPT
                              ![r].status = trigger_deployment_status(reply),
                              ![r].error_message = IF reply = "ok" THEN "none" ELSE reply]
               /\ UNCHANGED store
    /\ req' = [req EXCEPT ![r].pc = "returned"]
    /\ UNCHANGED <<now, env, issued, rejected, results>>
    /\ UNCHANGED <<schedVars, dataVars>>

----------------------------------------------------------------------------
(* app/routes/admin.py *)

\* _verify_admin_token
_verify_admin_token(x_admin_token) ==
    IF env.ADMIN_API_TOKEN = None
    THEN env.ENVIRONMENT = "development"
    ELSE x_admin_token = env.ADMIN_API_TOKEN

Idle ==
    [pc |-> "idle", x_admin_token |-> None, sent |-> None, update_railway |-> FALSE,
     trigger_deployment |-> FALSE, result |-> NoResult]

\* the handler of a request has returned its response
Returned == [Idle EXCEPT !.pc = "returned"]

NoResponse ==
    [http |-> 0, success |-> FALSE, status |-> "none", message |-> "none",
     expires_at |-> None, railway_update_status |-> "none",
     deployment_status |-> "none", result |-> NoResult, x_admin_token |-> None]

\* the response to a request the gate has turned away, lines 209-213;
\* x_admin_token is not part of a response: it names the header of the
\* request the response answers
Unauthorized(x_admin_token) ==
    [NoResponse EXCEPT !.http = 401, !.x_admin_token = x_admin_token]

\* TokenRefreshResponse, lines 223-246
Response(result) ==
    [NoResponse EXCEPT !.http = 200, !.success = is_success(result),
                       !.status = result.status,
                       !.message = IF is_success(result) THEN "none"
                                   ELSE IF requires_reauthorization(result)
                                   THEN "re-authorize at authorization url"
                                   ELSE "refresh failed",
                       !.expires_at = IF is_success(result) THEN result.expires_at
                                      ELSE None,
                       !.result = result]

\* refresh_tokens, lines 230-272, from the result of the refresh on: the
\* handler returns, or awaits the Railway update
AfterRefresh(r, x_admin_token, result, update_railway, trigger) ==
    LET response == [Response(result) EXCEPT !.x_admin_token = x_admin_token]
    IN IF ~is_success(result)
       THEN /\ resp' = [resp EXCEPT ![r] = response]
            /\ req' = [req EXCEPT ![r] = Returned]
       ELSE IF ~update_railway
       THEN /\ resp' = [resp EXCEPT ![r] = [response EXCEPT !.message = "completed"]]
            /\ req' = [req EXCEPT ![r] = Returned]
       ELSE IF ~railway_validate_configuration.ok
       THEN /\ resp' = [resp EXCEPT ![r] =
                           [response EXCEPT
                               !.railway_update_status = "configuration_error",
                               !.message = "refreshed but railway update failed"]]
            /\ req' = [req EXCEPT ![r] = Returned]
       ELSE /\ req' = [req EXCEPT ![r] =
                           [pc |-> "railway", x_admin_token |-> x_admin_token,
                            sent |-> req[r].sent,
                            update_railway |-> update_railway,
                            trigger_deployment |-> trigger, result |-> result]]
            /\ UNCHANGED resp

\* POST /admin/token/refresh, lines 209-221: the gate, then
\* token_service.refresh_token(request.refresh_token) up to its POST
refresh_tokens(r) ==
    /\ req[r].pc = "idle"
    /\ \E x_admin_token \in Headers, refresh_token \in {None, 1},
          update_railway \in BOOLEAN, trigger \in BOOLEAN :
          IF ~_verify_admin_token(x_admin_token)
          THEN /\ resp' = [resp EXCEPT ![r] = Unauthorized(x_admin_token)]
               /\ req' = [req EXCEPT ![r] = Returned]
          ELSE LET call == refresh_token_before_post(refresh_token)
               IN IF call.post
                  THEN /\ req' = [req EXCEPT ![r] =
                                     [pc |-> "vendor", x_admin_token |-> x_admin_token,
                                      sent |-> call.sent,
                                      update_railway |-> update_railway,
                                      trigger_deployment |-> trigger,
                                      result |-> NoResult]]
                       /\ UNCHANGED resp
                  ELSE AfterRefresh(r, x_admin_token, call.result, update_railway, trigger)
    /\ UNCHANGED <<now, env, store, issued, rejected, results>>
    /\ UNCHANGED <<schedVars, dataVars>>

\* the vendor answers the POST of request r: refresh_token() returns its result
\* and refresh_tokens goes on to line 223
refresh_tokens_vendor_replies(r) ==
    /\ req[r].pc = "vendor"
    /\ \E reply \in VendorReplies(req[r].sent) :
          LET result == refresh_token_after_post(reply)
          IN /\ Issues(reply) => issued < MaxIssued
             /\ issued' = IF Issues(reply) THEN issued + 1 ELSE issued
             /\ results' = IF is_success(result) THEN Append(results, result)
                           ELSE results
             /\ rejected' = IF requires_reauthorization(result)
                            THEN rejected \cup {req[r].sent} ELSE rejected
             /\ AfterRefresh(r, req[r].x_admin_token, result, req[r].update_railway,
                             req[r].trigger_deployment)
    /\ UNCHANGED <<now, env, store>>
    /\ UNCHANGED <<schedVars, dataVars>>

\* Railway answers the variableCollectionUpsert of request r, lines 255-267
refresh_tokens_railway_replies(r) ==
    /\ req[r].pc = "railway"
    /\ \E reply \in RailwayReplies :
          LET status == update_environment_variables_status(reply)
              base == [Response(req[r].result) EXCEPT
                          !.railway_update_status = status,
                          !.x_admin_token = req[r].x_admin_token]
          IN /\ store' = IF reply = "ok" THEN variableCollectionUpsert(req[r].result)
                         ELSE store
             /\ IF status # "success"
                THEN /\ resp' = [resp EXCEPT ![r] =
                                    [base EXCEPT !.message =
                                        "refreshed but railway update failed"]]
                     /\ req' = [req EXCEPT ![r] = Returned]
                ELSE IF req[r].trigger_deployment
                THEN /\ req' = [req EXCEPT ![r].pc = "deploy"]
                     /\ UNCHANGED resp
                ELSE /\ resp' = [resp EXCEPT ![r] = [base EXCEPT !.message = "completed"]]
                     /\ req' = [req EXCEPT ![r] = Returned]
    /\ UNCHANGED <<now, env, issued, rejected, results>>
    /\ UNCHANGED <<schedVars, dataVars>>

\* Railway answers the deploymentTrigger of request r, lines 266-272
refresh_tokens_deploy_replies(r) ==
    /\ req[r].pc = "deploy"
    /\ \E reply \in {"ok", "errors", "error"} :
          /\ resp' = [resp EXCEPT ![r] =
                         [Response(req[r].result) EXCEPT
                             !.railway_update_status = "success",
                             !.x_admin_token = req[r].x_admin_token,
                             !.deployment_status = trigger_deployment_status(reply),
                             !.message = "completed"]]
          /\ req' = [req EXCEPT ![r] = Returned]
    /\ UNCHANGED <<now, env, store, issued, rejected, results>>
    /\ UNCHANGED <<schedVars, dataVars>>

\* GET /admin/token/status, lines 141-184: the gate, then a report read from
\* os.environ
get_token_status(r) ==
    /\ req[r].pc = "idle"
    /\ \E x_admin_token \in Headers :
          resp' = [resp EXCEPT ![r] =
                      IF ~_verify_admin_token(x_admin_token)
                      THEN Unauthorized(x_admin_token)
                      ELSE [NoResponse EXCEPT
                               !.http = 200,
                               !.x_admin_token = x_admin_token,
                               !.message = "token status",
                               !.expires_at = env.WITHINGS_TOKEN_EXPIRES_AT]]
    /\ req' = [req EXCEPT ![r] = Returned]
    /\ UNCHANGED <<now, env, store, issued, rejected, results>>
    /\ UNCHANGED <<schedVars, dataVars>>

\* GET /admin/authorization-url, lines 276-303: the gate, then the URL
get_authorization_url(r) ==
    /\ req[r].pc = "idle"
    /\ \E x_admin_token \in Headers :
          resp' = [resp EXCEPT ![r] =
                      IF ~_verify_admin_token(x_admin_token)
                      THEN Unauthorized(x_admin_token)
                      ELSE [NoResponse EXCEPT
                               !.http = 200,
                               !.x_admin_token = x_admin_token,
                               !.message = "authorization url"]]
    /\ req' = [req EXCEPT ![r] = Returned]
    /\ UNCHANGED <<now, env, store, issued, rejected, results>>
    /\ UNCHANGED <<schedVars, dataVars>>

\* the HTTPException of a failed exchange, lines 331-335
ExchangeFailed(x_admin_token, result) ==
    [NoResponse EXCEPT !.http = 400, !.x_admin_token = x_admin_token,
                       !.status = result.status, !.message = "token exchange failed",
                       !.result = result]

\* the dict exchange_authorization_code returns, lines 337-355
ExchangeResponse(x_admin_token, result, railway_update_status) ==
    [NoResponse EXCEPT !.http = 200, !.x_admin_token = x_admin_token,
                       !.success = TRUE, !.status = result.status,
                       !.message = "exchanged",
                       !.expires_at = result.expires_at,
                       !.railway_update_status = railway_update_status,
                       !.result = result]

\* exchange_authorization_code, lines 330-355, from the result of the
\* exchange on: the handler returns, or awaits the Railway update
AfterExchange(r, x_admin_token, result, update_railway) ==
    IF ~is_success(result)
    THEN /\ resp' = [resp EXCEPT ![r] = ExchangeFailed(x_admin_token, result)]
         /\ req' = [req EXCEPT ![r] = Returned]
    ELSE IF ~update_railway
    THEN /\ resp' = [resp EXCEPT ![r] = ExchangeResponse(x_admin_token, result, "none")]
         /\ req' = [req EXCEPT ![r] = Returned]
    ELSE IF ~railway_validate_configuration.ok
    THEN /\ resp' = [resp EXCEPT ![r] =
                        ExchangeResponse(x_admin_token, result, "configuration_error")]
         /\ req' = [req EXCEPT ![r] = Returned]
    ELSE /\ req' = [req EXCEPT ![r] =
                        [pc |-> "exchange_railway", x_admin_token |-> x_admin_token,
                         sent |-> req[r].sent, update_railway |-> update_railway,
                         trigger_deployment |-> FALSE, result |-> result]]
         /\ UNCHANGED resp

\* POST /admin/token/exchange, lines 306-330: the gate, then
\* token_service.exchange_authorization_code(code) up to its POST
exchange_authorization_code(r) ==
    /\ req[r].pc = "idle"
    /\ \E x_admin_token \in Headers, code \in {1, 2}, update_railway \in BOOLEAN :
          IF ~_verify_admin_token(x_admin_token)
          THEN /\ resp' = [resp EXCEPT ![r] = Unauthorized(x_admin_token)]
               /\ req' = [req EXCEPT ![r] = Returned]
          ELSE LET call == exchange_authorization_code_before_post(code)
               IN IF call.post
                  THEN /\ req' = [req EXCEPT ![r] =
                                     [pc |-> "exchange_vendor",
                                      x_admin_token |-> x_admin_token,
                                      sent |-> call.sent,
                                      update_railway |-> update_railway,
                                      trigger_deployment |-> FALSE,
                                      result |-> NoResult]]
                       /\ UNCHANGED resp
                  ELSE AfterExchange(r, x_admin_token, call.result, update_railway)
    /\ UNCHANGED <<now, env, store, issued, rejected, results>>
    /\ UNCHANGED <<schedVars, dataVars>>

\* the POST of the exchange of request r ends:
\* exchange_authorization_code() returns its result to the handler
exchange_vendor_replies(r) ==
    /\ req[r].pc = "exchange_vendor"
    /\ \E reply \in VendorReplies(issued + 1) :
          LET result == exchange_authorization_code_after_post(reply)
          IN /\ Issues(reply) => issued < MaxIssued
             /\ issued' = IF Issues(reply) THEN issued + 1 ELSE issued
             /\ AfterExchange(r, req[r].x_admin_token, result, req[r].update_railway)
    /\ UNCHANGED <<now, env, store, rejected, results>>
    /\ UNCHANGED <<schedVars, dataVars>>

\* Railway answers the variableCollectionUpsert of the exchange of request r,
\* lines 346-351; the handler does not look at whether it succeeded
exchange_railway_replies(r) ==
    /\ req[r].pc = "exchange_railway"
    /\ \E reply \in RailwayReplies :
          /\ store' = IF reply = "ok" THEN variableCollectionUpsert(req[r].result)
                      ELSE store
          /\ resp' = [resp EXCEPT ![r] =
                         ExchangeResponse(req[r].x_admin_token, req[r].result,
                                          update_environment_variables_status(reply))]
    /\ req' = [req EXCEPT ![r] = Returned]
    /\ UNCHANGED <<now, env, issued, rejected, results>>
    /\ UNCHANGED <<schedVars, dataVars>>

\* time passes
Tick ==
    /\ now < MaxTime
    /\ now' = now + 1
    /\ UNCHANGED <<env, store, issued, rejected, results, req, resp>>
    /\ UNCHANGED <<schedVars, dataVars>>

----------------------------------------------------------------------------
(* src/routes/admin.py *)

\* a missing expires_in, line 158 (3 hours)
SRC_DEFAULT_EXPIRES_IN == 10800

SrcIdle ==
    [pc |-> "idle", sent |-> None, reply |-> [kind |-> "none", data |-> None],
     access_token |-> None, refresh_token |-> None, expires_in |-> None,
     upserts |-> <<>>]

SrcReturned == [SrcIdle EXCEPT !.pc = "returned"]

NoSrcResponse ==
    [http |-> 0, success |-> FALSE, expires_at |-> None, expires_in_seconds |-> None,
     persisted |-> FALSE, persistence_message |-> "none",
     access_token |-> None, refresh_token |-> None,
     detail |-> "none", answered |-> [json |-> FALSE, status |-> 0],
     upserts |-> <<>>]

\* an HTTPException, or an exception nothing catches (500)
SrcError(code) == [NoSrcResponse EXCEPT !.http = code]

\* lines 150-153: the HTTPException for a vendor document whose status is
\* not 0.  `answered` is not part of the response: it names the status the
\* response answers for (-1: the document has none).
SrcRefreshFailed(data) ==
    [NoSrcResponse EXCEPT
        !.http = 400,
        !.detail = IF data.has_error THEN "token refresh failed: vendor error"
                   ELSE "token refresh failed: unknown error",
        !.answered = [json |-> TRUE,
                      status |-> IF data.has_status THEN data.status ELSE -1]]

\* the dict refresh_token returns, lines 170-181; the tokens and `upserts`
\* are not part of it: they name the vendor response it answers for and what
\* Railway answered to its variableUpsert calls
SrcSuccess(q, persisted, message) ==
    [http |-> 200, success |-> TRUE, expires_at |-> now + q.expires_in,
     expires_in_seconds |-> q.expires_in, persisted |-> persisted,
     persistence_message |-> message,
     access_token |-> q.access_token, refresh_token |-> q.refresh_token,
     detail |-> "none", answered |-> [json |-> TRUE, status |-> 0],
     upserts |-> q.upserts]

\* verify_admin_token: 0 when the token is accepted, else the status raised
verify_admin_token(x_admin_token) ==
    IF env.ADMIN_API_TOKEN = None THEN 503
    ELSE IF x_admin_token # env.ADMIN_API_TOKEN THEN 401
    ELSE 0

\* persist_tokens_to_railway, lines 35-49: the names that are not configured
src_missing_railway_config ==
    {n \in {"RAILWAY_API_TOKEN", "RAILWAY_PROJECT_ID", "RAILWAY_SERVICE_ID",
            "RAILWAY_ENVIRONMENT_ID"} : env[n] = None}

\* lines 163-165: the new tokens go to os.environ, and to nothing else of it
src_apply_to_environ(access_token, refresh_token) ==
    [env EXCEPT !.WITHINGS_ACCESS_TOKEN = access_token,
                !.WITHINGS_REFRESH_TOKEN = refresh_token]

\* POST /admin/token/refresh, lines 123-146, up to the POST to the vendor
src_refresh_token(r) ==
    /\ req[r].pc = "idle"
    /\ \E x_admin_token \in Headers :
          LET gate == verify_admin_token(x_admin_token)
          IN IF gate # 0
             THEN /\ resp' = [resp EXCEPT ![r] = SrcError(gate)]
                  /\ req' = [req EXCEPT ![r] = SrcReturned]
             ELSE IF env.WITHINGS_REFRESH_TOKEN = None
             THEN /\ resp' = [resp EXCEPT ![r] = SrcError(400)]
                  /\ req' = [req EXCEPT ![r] = SrcReturned]
             ELSE IF env.WITHINGS_CLIENT_ID = None \/ env.WITHINGS_CLIENT_SECRET = None
             THEN /\ resp' = [resp EXCEPT ![r] = SrcError(500)]
                  /\ req' = [req EXCEPT ![r] = SrcReturned]
             ELSE /\ req' = [req EXCEPT ![r] =
                                [SrcIdle EXCEPT !.pc = "vendor",
                                                !.sent = env.WITHINGS_REFRESH_TOKEN]]
                  /\ UNCHANGED resp
    /\ UNCHANGED <<now, env, store, issued, rejected, results>>
    /\ UNCHANGED <<schedVars, dataVars>>

\* the vendor handles the POST of request r; its reply is on the way
VendorAnswers(r) ==
    /\ req[r].pc = "vendor"
    /\ \E reply \in VendorReplies(req[r].sent) :
          /\ Issues(reply) => issued < MaxIssued
          /\ issued' = IF Issues(reply) THEN issued + 1 ELSE issued
          /\ req' = [req EXCEPT ![r].pc = "vendor_replied", ![r].reply = reply]
    /\ UNCHANGED <<now, env, store, rejected, results, resp>>
    /\ UNCHANGED <<schedVars, dataVars>>

\* the reply reaches the handler of request r, lines 148-168: the tokens are
\* applied and persist_tokens_to_railway runs to its first POST
src_refresh_token_reply(r) ==
    /\ req[r].pc = "vendor_replied"
    /\ LET reply == req[r].reply
           data == reply.data
       IN IF reply.kind # "json"
          THEN \* client.post or response.json() raises
               /\ resp' = [resp EXCEPT ![r] = SrcError(500)]
               /\ req' = [req EXCEPT ![r] = SrcReturned]
               /\ UNCHANGED <<env, results, rejected>>
          ELSE IF ~(data.has_status /\ data.status = 0)
          THEN /\ resp' = [resp EXCEPT ![r] = SrcRefreshFailed(data)]
               /\ req' = [req EXCEPT ![r] = SrcReturned]
               /\ rejected' = IF data.has_status /\ data.status = 26
                              THEN rejected \cup {req[r].sent} ELSE rejected
               /\ UNCHANGED <<env, results>>
          ELSE IF data.access_token = None \/ data.refresh_token = None
          THEN /\ resp' = [resp EXCEPT ![r] = SrcError(500)]
               /\ req' = [req EXCEPT ![r] = SrcReturned]
               /\ UNCHANGED <<env, results, rejected>>
          ELSE LET expires_in == IF data.has_expires_in THEN data.expires_in
                                 ELSE SRC_DEFAULT_EXPIRES_IN
                   q == [req[r] EXCEPT !.access_token = data.access_token,
                                       !.refresh_token = data.refresh_token,
                                       !.expires_in = expires_in]
               IN /\ env' = src_apply_to_environ(data.access_token, data.refresh_token)
                  /\ results' = Append(results,
                        [status |-> "success", access_token |-> data.access_token,
                         refresh_token |-> data.refresh_token,
                         expires_in |-> expires_in, expires_at |-> now + expires_in,
                         error_message |-> "none", timestamp |-> now])
                  /\ UNCHANGED rejected
                  /\ IF src_missing_railway_config # {}
                     THEN /\ resp' = [resp EXCEPT ![r] =
                                         SrcSuccess(q, FALSE, "missing railway config")]
                          /\ req' = [req EXCEPT ![r] = SrcReturned]
                     ELSE /\ req' = [req EXCEPT ![r] = [q EXCEPT !.pc = "persist_access"]]
                          /\ UNCHANGED resp
    /\ UNCHANGED <<now, store, issued>>
    /\ UNCHANGED <<schedVars, dataVars>>

\* Railway answers the variableUpsert of WITHINGS_ACCESS_TOKEN, lines 71-90.
\* Only the HTTP status is looked at: a 200 that carries GraphQL errors
\* counts as done.
src_persist_access_replies(r) ==
    /\ req[r].pc = "persist_access"
    /\ \E reply \in RailwayReplies :
          LET q == [req[r] EXCEPT !.upserts = Append(@, reply)]
          IN /\ store' = IF reply = "ok"
                         THEN [store EXCEPT !.WITHINGS_ACCESS_TOKEN = req[r].access_token]
                         ELSE store
             /\ IF reply = "error"
                THEN /\ resp' = [resp EXCEPT ![r] =
                                    [SrcError(500) EXCEPT !.upserts = q.upserts]]
                     /\ req' = [req EXCEPT ![r] = SrcReturned]
                ELSE IF reply \in {"http_401", "http_error"}
                THEN /\ resp' = [resp EXCEPT ![r] =
                                    SrcSuccess(q, FALSE, "failed to persist access token")]
                     /\ req' = [req EXCEPT ![r] = SrcReturned]
                ELSE /\ req' = [req EXCEPT ![r] = [q EXCEPT !.pc = "persist_refresh"]]
                     /\ UNCHANGED resp
    /\ UNCHANGED <<now, env, issued, rejected, results>>
    /\ UNCHANGED <<schedVars, dataVars>>

\* Railway answers the variableUpsert of WITHINGS_REFRESH_TOKEN, lines 93-114,
\* and refresh_token returns, lines 170-181
src_persist_refresh_replies(r) ==
    /\ req[r].pc = "persist_refresh"
    /\ \E reply \in RailwayReplies :
          LET q == [req[r] EXCEPT !.upserts = Append(@, reply)]
          IN /\ store' = IF reply = "ok"
                         THEN [store EXCEPT !.WITHINGS_REFRESH_TOKEN = req[r].refresh_token]
                         ELSE store
             /\ resp' = [resp EXCEPT ![r] =
                   IF reply = "error" THEN [SrcError(500) EXCEPT !.upserts = q.upserts]
                   ELSE IF reply \in {"http_401", "http_error"}
                   THEN SrcSuccess(q, FALSE, "failed to persist refresh token")
                   ELSE SrcSuccess(q, TRUE, "tokens persisted to railway")]
             /\ req' = [req EXCEPT ![r] = SrcReturned]
    /\ UNCHANGED <<now, env, issued, rejected, results>>
    /\ UNCHANGED <<schedVars, dataVars>>

----------------------------------------------------------------------------
(* Logging: token_refresh.py (to_dict), app/utils/logging_config.py and
   src/routes/observations.py *)

\* A text is a sequence of pieces: a literal, or the characters from..to of
\* the token numbered tok (tok = 0: a literal).  Literals here begin and end
\* with characters outside [a-zA-Z0-9] where they touch token characters.
Lit(text) == [tok |-> 0, from |-> 0, to |-> 0, text |-> text]

Chars(tok, from, to) == [tok |-> tok, from |-> from, to |-> to, text |-> ""]

\* a token string: its number and its length (len 0: None or "")
TokenString(tok, len) == [id |-> tok, len |-> len]

\* _mask_token: shorter than this, the whole token is hidden
MASK_MIN_LENGTH == 10

\* token[-3:]
MASK_TAIL == 3

\* the filter's pattern [a-zA-Z0-9]{40,}
FILTER_MIN_RUN == 40

\* access_token[:20]
LOGGED_PREFIX == 20

\* TokenRefreshResult._mask_token
_mask_token(token) ==
    IF token.len = 0 THEN <<>>
    ELSE IF token.len < MASK_MIN_LENGTH THEN <<Lit("[MASKED]")>>
    ELSE <<Lit("token_*****"), Chars(token.id, token.len - MASK_TAIL + 1, token.len)>>

\* WithingsTokenFilter._mask_sensitive_data: every run of 40 or more
\* alphanumeric characters becomes token_***** and its last three
RECURSIVE _mask_sensitive_data(_)
_mask_sensitive_data(text) ==
    IF text = <<>> THEN <<>>
    ELSE LET p == Head(text)
         IN (IF p.tok # 0 /\ p.to - p.from + 1 >= FILTER_MIN_RUN
             THEN <<Lit("token_*****"), Chars(p.tok, p.to - MASK_TAIL + 1, p.to)>>
             ELSE <<p>>)
            \o _mask_sensitive_data(Tail(text))

\* a caller holding the access token of os.environ; `filtered`: the handler
\* of setup_logging, with its WithingsTokenFilter, is installed
LogIdle(token, filtered) ==
    [pc |-> "idle", access_token |-> token, filtered |-> filtered]

NoLog == [log |-> <<>>, access_token_masked |-> <<>>]

\* fetch_v1_metrics, line 61: logger.info(f"Starting V1 metrics fetch with
\* token: {access_token[:20]}...")
fetch_v1_metrics(r) ==
    /\ Len(resp[r].log) < MaxLog
    /\ LET token == req[r].access_token
           to == IF token.len < LOGGED_PREFIX THEN token.len ELSE LOGGED_PREFIX
           msg == <<Lit("Starting V1 metrics fetch with token: "),
                    Chars(token.id, 1, to), Lit("...")>>
       IN resp' = [resp EXCEPT ![r].log =
                      Append(@, IF req[r].filtered THEN _mask_sensitive_data(msg)
                                ELSE msg)]
    /\ req' = [req EXCEPT ![r].pc = "returned"]
    /\ UNCHANGED <<now, env, store, issued, rejected, results>>
    /\ UNCHANGED <<schedVars, dataVars>>

\* TokenRefreshResult.to_dict, lines 59-72, for a result holding the token
to_dict(r) ==
    /\ resp[r].access_token_masked = <<>>
    /\ resp' = [resp EXCEPT ![r].access_token_masked = _mask_token(req[r].access_token)]
    /\ UNCHANGED <<req, now, env, store, issued, rejected, results>>
    /\ UNCHANGED <<schedVars, dataVars>>

----------------------------------------------------------------------------
(* src/routes/auth.py (get_valid_token) and src/withings_client.py
   (refresh_token_if_needed, sync_user): the tokens of the database *)

\* a TokenRecord row (encryption left out: decrypt_token(encrypt_token(t)) = t)
TokenRecord(access_token, refresh_token, expires_at) ==
    [access_token_encrypted |-> access_token,
     refresh_token_encrypted |-> refresh_token,
     expires_at |-> expires_at]

\* timedelta(minutes=5), withings_client.py:15
REFRESH_MARGIN_SECONDS == 300

DbIdle == [pc |-> "idle", op |-> "none", sent |-> None]

NoDbResponse == [outcome |-> "none", access_token |-> None]

\* a refresh that writes what the document holds before it looks at the status
get_valid_token_after_post_unchecked(reply) ==
    IF reply.kind # "json"
    THEN [outcome |-> "raised", token |-> token_record]
    ELSE [outcome |-> IF reply.data.has_status /\ reply.data.status = 0
                      THEN "refreshed" ELSE "failed",
          token |-> TokenRecord(reply.data.access_token, reply.data.refresh_token,
                                now + reply.data.expires_in)]

\* get_valid_token, lines 118-128: resp.json() raises; a status other than 0
\* is an HTTPException; a missing body field is a KeyError before the commit
get_valid_token_after_post(reply) ==
    LET data == reply.data
    IN IF reply.kind # "json"
       THEN [outcome |-> "raised", token |-> token_record]
       ELSE IF ~(data.has_status /\ data.status = 0)
       THEN [outcome |-> "failed", token |-> token_record]
       ELSE IF data.access_token = None \/ data.refresh_token = None
               \/ ~data.has_expires_in
       THEN [outcome |-> "raised", token |-> token_record]
       ELSE [outcome |-> "refreshed",
             token |-> TokenRecord(data.access_token, data.refresh_token,
                                   now + data.expires_in)]

\* refresh_token_if_needed, lines 26-33: the status is not looked at; a
\* missing body or body field is a KeyError, and sync_user's session ends
\* without a commit
refresh_token_if_needed_after_post(reply) ==
    LET data == reply.data
    IN IF reply.kind # "json"
       THEN [outcome |-> "raised", token |-> token_record]
       ELSE IF data.access_token = None \/ data.refresh_token = None
               \/ ~data.has_expires_in
       THEN [outcome |-> "raised", token |-> token_record]
       ELSE [outcome |-> "refreshed",
             token |-> TokenRecord(data.access_token, data.refresh_token,
                                   now + data.expires_in)]

\* get_valid_token(user_id, db), lines 96-116: up to the POST to the vendor
get_valid_token(r) ==
    /\ req[r].pc = "idle"
    /\ IF now >= token_record.expires_at
       THEN /\ req' = [req EXCEPT ![r] =
                          [pc |-> "posted", op |-> "get_valid_token",
                           sent |-> token_record.refresh_token_encrypted]]
            /\ UNCHANGED resp
       ELSE /\ req' = [req EXCEPT ![r] = [DbIdle EXCEPT !.pc = "returned"]]
            /\ resp' = [resp EXCEPT ![r] =
                           [outcome |-> "valid",
                            access_token |-> token_record.access_token_encrypted]]
    /\ UNCHANGED <<now, env, store, issued, rejected, results>>
    /\ UNCHANGED <<schedVars, dataVars>>

\* sync_user(user_id), lines 73-81, into refresh_token_if_needed, lines
\* 14-25: up to the POST to the vendor
sync_user(r) ==
    /\ req[r].pc = "idle"
    /\ IF token_record.expires_at > now + REFRESH_MARGIN_SECONDS
       THEN /\ req' = [req EXCEPT ![r] = [DbIdle EXCEPT !.pc = "returned"]]
            /\ resp' = [resp EXCEPT ![r] =
                           [outcome |-> "valid",
                            access_token |-> token_record.access_token_encrypted]]
       ELSE /\ req' = [req EXCEPT ![r] =
                          [pc |-> "posted", op |-> "refresh_token_if_needed",
                           sent |-> token_record.refresh_token_encrypted]]
            /\ UNCHANGED resp
    /\ UNCHANGED <<now, env, store, issued, rejected, results>>
    /\ UNCHANGED <<schedVars, dataVars>>

\* the vendor answers the POST.  get_valid_token commits what it has
\* assigned (line 128); in sync_user the commit is that of line 87, which
\* fetch_measurements may keep from being reached.
db_post_ends(r) ==
    /\ req[r].pc = "posted"
    /\ \E reply \in VendorReplies(req[r].sent), committed \in BOOLEAN :
          LET res == IF req[r].op = "get_valid_token"
                     THEN get_valid_token_after_post(reply)
                     ELSE refresh_token_if_needed_after_post(reply)
              commits == req[r].op = "get_valid_token" \/ committed
          IN /\ Issues(reply) => issued < MaxIssued
             /\ issued' = IF Issues(reply) THEN issued + 1 ELSE issued
             /\ results' = IF res.outcome = "refreshed"
                           THEN Append(results,
                                   [status |-> "success",
                                    access_token |-> res.token.access_token_encrypted,
                                    refresh_token |-> res.token.refresh_token_encrypted,
                                    expires_in |-> reply.data.expires_in,
                                    expires_at |-> res.token.expires_at,
                                    error_message |-> "none", timestamp |-> now])
                           ELSE results
             /\ token_record' = IF commits THEN res.token ELSE token_record
             /\ resp' = [resp EXCEPT ![r] =
                            [outcome |-> res.outcome,
                             access_token |-> IF res.outcome = "refreshed"
                                              THEN res.token.access_token_encrypted
                                              ELSE None]]
             /\ req' = [req EXCEPT ![r] = [DbIdle EXCEPT !.pc = "returned"]]
    /\ UNCHANGED <<now, env, store, rejected>>
    /\ UNCHANGED <<schedVars, ACCESS_TOKEN, data_call>>

\* which of the three places a request is one of
IsApp(r) == "update_railway" \in DOMAIN req[r]

IsSrc(r) == "upserts" \in DOMAIN req[r]

IsDb(r) == "op" \in DOMAIN req[r]

----------------------------------------------------------------------------
(* src/routes/data.py *)

NoDataCall ==
    [outcome |-> "none", access_token |-> None, at |-> 0, environ_token |-> None]

\* the module is imported: ACCESS_TOKEN = os.getenv("WITHINGS_ACCESS_TOKEN", "")
InitData ==
    /\ ACCESS_TOKEN = env.WITHINGS_ACCESS_TOKEN
    /\ data_call = NoDataCall
    /\ token_record = TokenRecord(1, 1, VENDOR_EXPIRES_IN)

\* fetch_withings_data(), lines 110-171: GET /measure with
\* "Authorization: Bearer ACCESS_TOKEN".  `at` is the time of the call and
\* environ_token the access token os.environ holds then.
fetch_withings_data ==
    /\ \E reply \in {"ok", "status_error", "error"} :
          data_call' =
              IF ACCESS_TOKEN = None
              THEN [NoDataCall EXCEPT !.outcome = "not configured", !.at = now]
              ELSE [outcome |-> IF reply = "ok" THEN "ok" ELSE "error",
                    access_token |-> ACCESS_TOKEN, at |-> now,
                    environ_token |-> env.WITHINGS_ACCESS_TOKEN]
    /\ UNCHANGED <<ACCESS_TOKEN, token_record, now, env, store, issued, rejected, results,
                   req, resp>>
    /\ UNCHANGED schedVars

\* one refresh interval passes
Wait ==
    /\ now < MaxTime * VENDOR_EXPIRES_IN
    /\ now' = now + REFRESH_INTERVAL_SECONDS
    /\ UNCHANGED <<env, store, issued, rejected, results, req, resp>>
    /\ UNCHANGED <<schedVars, dataVars>>

----------------------------------------------------------------------------
(* The scheduler's properties *)

\* C4: start_scheduler() while a loop task is active changes nothing (it logs
\* "already running"), and at most one loop task is active at any time.
C4_AtMostOneLoop ==
    [][ /\ Cardinality(ActiveTasks') <= 1
        /\ (sched_log' = "already_running" /\ sched_log # "already_running")
             => /\ ActiveTasks # {}
                /\ task' = task
                /\ _scheduler_task' = _scheduler_task
                /\ _scheduler_running' = _scheduler_running ]_vars

\* start_scheduler() has been called on a running scheduler
C4_Witness ==
    /\ sched_log = "already_running"
    /\ Cardinality(ActiveTasks) = 1
    /\ cycles > 0

\* C5: every scheduler cycle makes one refresh call to the vendor when the
\* client id, the client secret and the refresh token are configured.
C5_EveryCycleRefreshes ==
    (_validate_configuration.ok /\ env.WITHINGS_REFRESH_TOKEN # None)
        => Len(sched_sent) = cycles

\* C6: a cycle that fails never ends the loop: while stop_scheduler() is not
\* called, another cycle is eventually started.
C6_NextCycleEventually ==
    \A n \in 0..(MaxCycles - 1) :
        (cycles = n /\ _scheduler_running) ~> (cycles > n \/ ~_scheduler_running)

\* a cycle has failed and a later one has run
C6_Witness ==
    /\ cycles = MaxCycles
    /\ last_cycle.logged = "error"
    /\ _scheduler_running
    /\ ActiveTasks # {}

\* C7: after a cycle that failed, the loop sleeps the 60 second error
\* backoff, not the refresh interval.
C7_BackoffAfterFailedCycle ==
    \A t \in TaskIds :
        (task[t].pc \in {"interval_sleep", "backoff_sleep"} /\ last_cycle.logged = "error")
            => task[t].secs = ERROR_BACKOFF_SECONDS

\* C8: stop_scheduler() cancels the pending wait: once it has been called
\* the loop task is cancelled, can end without its timer firing, runs no
\* further cycle and does nothing but end.
C8_StopCancelsWait ==
    [][ /\ \A t \in TaskIds :
              (task'[t].pc \notin {"none", "done"} /\ ~_scheduler_running')
                  => task'[t].must_cancel
        /\ \A t \in TaskIds :
              (TaskActive(t) /\ task[t].must_cancel)
                  => /\ ENABLED TaskCancelled(t)
                     /\ cycles' = cycles
                     /\ task'[t] \in {task[t], Done} ]_vars

\* stop_scheduler() has been called on a loop in its interval sleep, whose
\* timer has not fired
C8_Witness ==
    \E t \in TaskIds :
        /\ task[t].pc = "interval_sleep"
        /\ task[t].must_cancel
        /\ ~task[t].fired
        /\ ~_scheduler_running
        /\ sched_log = "stopped"
        /\ cycles > 0

----------------------------------------------------------------------------
(* The token state's properties *)

Last(seq) == seq[Len(seq)]

\* the four fields of a token state, of os.environ and of a Success result
TokenState(e) ==
    <<e.WITHINGS_ACCESS_TOKEN, e.WITHINGS_REFRESH_TOKEN, e.WITHINGS_TOKEN_EXPIRES_AT,
      e.WITHINGS_TOKEN_LAST_REFRESHED>>

TokenStateOf(result) ==
    <<result.access_token, result.refresh_token, result.expires_at, result.timestamp>>

\* the token state every environment of Environments starts with
InitialTokenState == <<1, 1, VENDOR_EXPIRES_IN, 0>>

\* request r has sent its POST to the vendor and has not applied the answer
InFlight(r) == req[r].pc \in {"vendor", "vendor_replied"}

\* C1: after a successful refresh the stored refresh token is the one of
\* that vendor response, so the next refresh without an explicit token
\* sends it.
C1_StoredRefreshTokenIsRotated ==
    (results # <<>> /\ Last(results).refresh_token # None)
        => env.WITHINGS_REFRESH_TOKEN = Last(results).refresh_token

\* C2: the four fields of the token state are always those of one result
\* (or the four the process started with), never a mix of two.
C2_AllOrNothing ==
    TokenState(env) \in
        {InitialTokenState} \cup {TokenStateOf(results[i]) : i \in 1..Len(results)}

\* C3: refreshes are serialized: no two in-flight refreshes have sent the
\* same stored refresh token, and the token state is that of the newest
\* result applied.
C3_RefreshesSerialized ==
    /\ \A r1, r2 \in Requests :
          (r1 # r2 /\ InFlight(r1) /\ InFlight(r2)) => req[r1].sent # req[r2].sent
    /\ \A i \in 1..Len(results) :
          results[i].access_token <= env.WITHINGS_ACCESS_TOKEN

\* C10: when the refresh succeeded and the publish failed the response
\* reports success with the new expiry, reports the publish failure, and
\* the token state holds the refreshed tokens.
C10_PublishFailureKeepsToken ==
    \A r \in Requests :
        ( /\ resp[r].http = 200
          /\ resp[r].success
          /\ resp[r].railway_update_status \notin {"none", "success"}
          /\ results # <<>>
          /\ resp[r].result = Last(results)
          /\ resp[r].result.refresh_token # None )
        => /\ resp[r].expires_at = resp[r].result.expires_at
           /\ resp[r].message = "refreshed but railway update failed"
           /\ env.WITHINGS_ACCESS_TOKEN = resp[r].result.access_token
           /\ env.WITHINGS_REFRESH_TOKEN = resp[r].result.refresh_token

----------------------------------------------------------------------------
(* The admin surface's and the services' properties *)

\* C11: the manual refresh endpoint's response for a refresh the vendor
\* answered InvalidRefreshToken (status 26) says that re-authorization is
\* required and carries the authorization URL; the response for any other
\* vendor failure carries a failure message only.  (Stated of the responses
\* of src/routes/admin.py.)
C11_ReauthorizationDistinguished ==
    \A r \in Requests :
        (resp[r].http # 0 /\ resp[r].answered.json /\ resp[r].answered.status # 0)
            => (resp[r].detail = "re-authorize at authorization url"
                    <=> resp[r].answered.status = STATUS_INVALID_REFRESH_TOKEN)

\* a call of the service has returned the result of a vendor document
Parsed(r) ==
    /\ req[r].pc = "returned"
    /\ req[r].op \in {"refresh_token", "exchange_authorization_code"}
    /\ req[r].reply.kind = "json"

\* the status _parse_token_response reads in a document (-1: it has none)
StatusOf(data) == IF data.has_status THEN data.status ELSE -1

\* C12: the parser maps status 0 to a Success result, whose
\* requires_reauthorization is false, and status 26 to an
\* InvalidRefreshToken result, whose requires_reauthorization is true.
C12_ParserSuccessAndInvalidRefreshToken ==
    \A r \in Requests :
        Parsed(r) =>
            LET status == StatusOf(req[r].reply.data)
                result == resp[r].result
            IN /\ status = STATUS_SUCCESS
                    => /\ result.status = "success"
                       /\ is_success(result)
                       /\ ~requires_reauthorization(result)
               /\ status = STATUS_INVALID_REFRESH_TOKEN
                    => /\ result.status = "invalid_refresh_token"
                       /\ ~is_success(result)
                       /\ requires_reauthorization(result)

\* a refresh has been answered status 26 and has returned its result
C12_Witness ==
    \E r \in Requests :
        /\ Parsed(r)
        /\ req[r].op = "refresh_token"
        /\ StatusOf(req[r].reply.data) = STATUS_INVALID_REFRESH_TOKEN
        /\ resp[r].result.status = "invalid_refresh_token"

\* C13: the parser maps status 29 to InvalidGrant and every status other
\* than 0, 26 and 29, a missing status included, to ApiError with the
\* vendor's error message; no status other than 0 gives a Success.
C13_ParserInvalidGrantAndApiError ==
    \A r \in Requests :
        Parsed(r) =>
            LET data == req[r].reply.data
                status == StatusOf(data)
                result == resp[r].result
            IN /\ status = STATUS_INVALID_AUTHORIZATION_CODE
                    => result.status = "invalid_grant"
               /\ status \notin {STATUS_SUCCESS, STATUS_INVALID_REFRESH_TOKEN,
                                 STATUS_INVALID_AUTHORIZATION_CODE}
                    => /\ result.status = "api_error"
                       /\ result.error_message =
                             IF data.has_error THEN "vendor error" ELSE "unknown error"
               /\ status # STATUS_SUCCESS
                    => /\ ~is_success(result)
                       /\ result.access_token = None

\* an exchange has been answered by a document without a status, which
\* carries an error message, and has returned an ApiError
C13_Witness ==
    \E r \in Requests :
        /\ Parsed(r)
        /\ req[r].op = "exchange_authorization_code"
        /\ ~req[r].reply.data.has_status
        /\ req[r].reply.data.has_error
        /\ resp[r].result.status = "api_error"
        /\ resp[r].result.error_message = "vendor error"

\* the service lacks the client id, the client secret, or a refresh token
\* for the call of r (no explicit one, and none stored)
RefreshNotConfigured(r) ==
    \/ env.WITHINGS_CLIENT_ID = None
    \/ env.WITHINGS_CLIENT_SECRET = None
    \/ (req[r].arg = None /\ env.WITHINGS_REFRESH_TOKEN = None)

\* C14: refresh_token() called without the client id, the client secret or
\* a refresh token returns ConfigurationError at once and makes no POST to
\* the vendor.
C14_RefreshNeedsConfiguration ==
    \A r \in Requests :
        (req[r].op = "refresh_token" /\ RefreshNotConfigured(r))
            => /\ req[r].pc = "returned"
               /\ resp[r].result.status = "configuration_error"
               /\ resp[r].posts = 0
               /\ req[r].sent = None
               /\ issued = 1

\* refresh_token() has been called with no explicit token and none stored,
\* the client id and the client secret being configured
C14_Witness ==
    \E r \in Requests :
        /\ req[r].op = "refresh_token"
        /\ req[r].arg = None
        /\ env.WITHINGS_REFRESH_TOKEN = None
        /\ env.WITHINGS_CLIENT_ID # None
        /\ env.WITHINGS_CLIENT_SECRET # None
        /\ resp[r].result.status = "configuration_error"
        /\ resp[r].posts = 0

\* C20: when the timeout of a vendor OAuth call expires, the call (a
\* refresh or an exchange of an authorization code) returns a NetworkError
\* result, and no other kind of result.
C20_TimeoutIsNetworkError ==
    \A r \in Requests :
        ( /\ req[r].pc = "returned"
          /\ req[r].op \in {"refresh_token", "exchange_authorization_code"}
          /\ req[r].reply.kind = "timeout" )
        => resp[r].result.status = "network_error"

\* the Railway identifiers that are not configured
MissingIdentifiers ==
    {n \in {"RAILWAY_API_TOKEN", "RAILWAY_PROJECT_ID", "RAILWAY_SERVICE_ID",
            "RAILWAY_ENVIRONMENT_ID"} : env[n] = None}

\* C15: update_environment_variables() called while one of the four Railway
\* identifiers is missing returns a configuration error that names all the
\* missing identifiers and only them, and makes no POST to Railway.
C15_PublishNamesMissingConfiguration ==
    \A r \in Requests :
        (req[r].op = "update_environment_variables" /\ MissingIdentifiers # {})
            => /\ req[r].pc = "returned"
               /\ resp[r].status = "configuration_error"
               /\ NamesIn(resp[r].error_message) = MissingIdentifiers
               /\ resp[r].posts = 0

\* request r has been made: its handler is running or has answered
Made(r) == req[r].pc # "idle"

\* the X-Admin-Token header request r was made with
HeaderOf(r) ==
    IF req[r].pc = "returned" THEN resp[r].x_admin_token ELSE req[r].x_admin_token

\* request r has been turned away by the gate, and nothing has come of it
RejectedWithoutEffect(r) ==
    /\ req[r].pc = "returned"
    /\ resp[r].http = 401
    /\ issued = 1
    /\ results = <<>>
    /\ TokenState(store) = InitialTokenState
    /\ TokenState(env) = InitialTokenState

\* C16: when no admin secret is configured the gate is closed: every request
\* to a gated operation is rejected, whatever its header.
C16_GateClosedWithoutSecret ==
    \A r \in {1} :
        (env.ADMIN_API_TOKEN = None /\ Made(r)) => RejectedWithoutEffect(r)

\* C17: a request to a gated operation whose X-Admin-Token header is absent,
\* or differs from the configured secret, is rejected, and causes no vendor
\* call, no publish, no redeploy and no change of the token state.
C17_WrongHeaderRejectedWithoutEffect ==
    \A r \in {1} :
        (Made(r) /\ (HeaderOf(r) = None \/ HeaderOf(r) # env.ADMIN_API_TOKEN))
            => RejectedWithoutEffect(r)

\* the time the access token `tok` expires at: the stored expiry for the
\* token the process started with, that of its result for a refreshed one
ExpiresAt(tok) ==
    IF \E i \in 1..Len(results) : results[i].access_token = tok
    THEN (CHOOSE x \in {results[i] : i \in 1..Len(results)} : x.access_token = tok).expires_at
    ELSE InitialTokenState[3]

\* C18: no data call to the vendor is made with an access token that has
\* expired (now >= expires_at) at the time of the call.
C18_NoDataCallWithExpiredToken ==
    data_call.access_token # None
        => data_call.at < ExpiresAt(data_call.access_token)

\* C19: in the manual refresh flow a redeploy is triggered only when the
\* request asked for it, and only after the vendor refresh has succeeded and
\* then the publish to Railway has succeeded; a deployment status is
\* reported only for a redeploy that was triggered.
C19_RedeployOnlyAfterPublish ==
    [][ \A r \in Requests :
          /\ (req'[r].pc = "deploy" /\ req[r].pc # "deploy")
                => /\ req[r].pc = "railway"
                   /\ req[r].trigger_deployment
                   /\ req[r].update_railway
                   /\ is_success(req[r].result)
                   /\ req[r].result \in {results[i] : i \in 1..Len(results)}
                   /\ store' = variableCollectionUpsert(req[r].result)
          /\ (resp'[r] # resp[r] /\ resp'[r].deployment_status # "none")
                => /\ req[r].pc = "deploy"
                   /\ resp'[r].success
                   /\ resp'[r].railway_update_status = "success" ]_vars

\* a refresh that asked for a redeploy has succeeded, has been published and
\* has triggered the deployment
C19_Witness ==
    \E r \in Requests :
        /\ req[r].pc = "returned"
        /\ resp[r].success
        /\ resp[r].railway_update_status = "success"
        /\ resp[r].deployment_status = "deployment_pending"
        /\ TokenState(store) = <<resp[r].result.access_token, resp[r].result.refresh_token,
                                 resp[r].result.expires_at, now>>

\* C21: refresh_token(), exchange_authorization_code() and
\* update_environment_variables() return a typed result on every failure
\* path (timeout, transport error, HTTP error, malformed or unexpected
\* payload): no exception leaves the call, and a call whose POST has ended
\* has returned.
C21_ServicesReturnTypedResults ==
    /\ \A r \in {1} :
          /\ req[r].pc \in {"idle", "posted", "returned"}
          /\ req[r].pc = "returned" => resp[r].result.status \in TokenRefreshStatus
          /\ req[r].pc # "returned" => resp[r].result = NoResult
    /\ \A r \in {2} :
          /\ req[r].pc \in {"idle", "posted", "returned"}
          /\ req[r].pc = "returned" => resp[r].status \in RailwayUpdateStatus
          /\ req[r].pc # "returned" => resp[r].status = "none"

\* an exchange whose POST was answered by a malformed body has returned
\* ApiError, and a Railway update whose POST failed in transport has
\* returned ApiError
C21_Witness ==
    /\ req[1].pc = "returned"
    /\ req[1].op = "exchange_authorization_code"
    /\ req[1].reply.kind = "malformed"
    /\ resp[1].result.status = "api_error"
    /\ req[2].pc = "returned"
    /\ req[2].op = "update_environment_variables"
    /\ resp[2].error_message = "error"
    /\ resp[2].status = "api_error"

\* C22: should_refresh_now(expires_at, buffer) is true if and only if
\* now >= expires_at - buffer (the buffer is in hours), for every expires_at
\* and every buffer >= 0, and it is (now >= get_next_refresh_time(expires_at,
\* buffer)).
C22_ShouldRefreshNowIffPastBuffer ==
    \A r \in {1} :
        req[r].pc = "returned" =>
            /\ req[r].expires_at # None
                 => (resp[r].should_refresh
                       <=> resp[r].at >= req[r].expires_at
                                           - req[r].buffer_hours * SECONDS_PER_HOUR)
            /\ resp[r].should_refresh <=> resp[r].at >= resp[r].next_refresh

\* should_refresh_now has been called at the very instant expires_at - buffer,
\* after time has passed, and has answered true
C22_Witness ==
    \E r \in {1} :
        /\ req[r].pc = "returned"
        /\ req[r].expires_at # None
        /\ req[r].buffer_hours > 0
        /\ resp[r].at > 0
        /\ resp[r].at = req[r].expires_at - req[r].buffer_hours * SECONDS_PER_HOUR
        /\ resp[r].should_refresh

\* C23: a refresh that succeeds at time T with a vendor response carrying
\* expires_in = E gives a result with expires_at = T + E; and when E is no
\* more than the buffer (E = 10800 under the 24 h buffer), should_refresh_now
\* called at T with that expires_at returns true.
C23_ExpiryIsNowPlusExpiresIn ==
    (req[1].pc = "returned" /\ is_success(resp[1].result)) =>
        /\ req[1].reply.data.has_expires_in
              => resp[1].result.expires_at
                    = resp[1].result.timestamp + req[1].reply.data.expires_in
        /\ ( /\ req[2].pc = "returned"
             /\ resp[2].at = resp[1].result.timestamp
             /\ resp[1].result.expires_in <= req[2].buffer_hours * SECONDS_PER_HOUR )
              => resp[2].should_refresh

\* a refresh has succeeded at T > 0 with expires_in = 10800, and
\* should_refresh_now, called at T with the 24 h buffer, has answered true
C23_Witness ==
    /\ req[1].pc = "returned"
    /\ req[1].op = "refresh_token"
    /\ is_success(resp[1].result)
    /\ req[1].reply.data.has_expires_in
    /\ resp[1].result.expires_in = VENDOR_EXPIRES_IN
    /\ resp[1].result.timestamp > 0
    /\ req[2].pc = "returned"
    /\ req[2].buffer_hours = DEFAULT_BUFFER_HOURS
    /\ resp[2].at = resp[1].result.timestamp
    /\ resp[2].should_refresh

\* C24: a publish reports every answer of the external store that is not a
\* plain success as a failure: HTTP 401 as an authentication error, any other
\* HTTP status or a 200 carrying an errors list as an API error; none of
\* them is reported as success.  Here: a refresh that reports its tokens as
\* persisted has had nothing but plain successes from the store.
C24_StoreErrorsAreNotSuccess ==
    \A r \in Requests :
        (resp[r].http = 200 /\ resp[r].persisted)
            => \A i \in 1..Len(resp[r].upserts) : resp[r].upserts[i] = "ok"

\* C29: once every publish has returned, the access token and the refresh
\* token of the external store come from one vendor response (or are the
\* pair the store started with); a failed publish leaves both as they were.
C29_StoreHoldsOnePair ==
    (\A r \in Requests : req[r].pc \in {"idle", "returned"})
        => <<store.WITHINGS_ACCESS_TOKEN, store.WITHINGS_REFRESH_TOKEN>> \in
              {<<InitialTokenState[1], InitialTokenState[2]>>}
              \cup {<<results[i].access_token, results[i].refresh_token>>
                       : i \in 1..Len(results)}

\* C25: no log entry, and no masked field, holds more of an access or
\* refresh token than its last three characters.
C25_LogsHoldNoUnmaskedToken ==
    \A r \in Requests :
        LET token == req[r].access_token
            Masked(text) ==
                \A i \in 1..Len(text) :
                    text[i].tok # 0 => text[i].from > token.len - MASK_TAIL
        IN /\ \A i \in 1..Len(resp[r].log) : Masked(resp[r].log[i])
           /\ Masked(resp[r].access_token_masked)

\* C26: once start_scheduler() has returned, also when it was called after
\* stop_scheduler() and before the cancelled task has finished, a loop is
\* active: the status reports running = true and the task of the module is
\* one that has not finished and is not being cancelled.
C26_StartAfterStopLeavesLoop ==
    sched_log \in {"started", "already_running"}
        => /\ get_scheduler_status.running
           /\ _scheduler_task # None
           /\ TaskActive(_scheduler_task)
           /\ ~task[_scheduler_task].must_cancel

\* C27: get_scheduler_status() reports running = true if and only if a loop
\* task exists and has not finished.
C27_RunningIffTaskNotFinished ==
    get_scheduler_status.running
        <=> (_scheduler_task # None /\ ~TaskDone(_scheduler_task))

\* the request has returned, and not with a Success
ReturnedWithoutSuccess(r) ==
    /\ req[r].pc = "returned"
    /\ IsApp(r) => resp[r].http \in {200, 400} /\ ~is_success(resp[r].result)
                      /\ resp[r].status # "none"
    /\ IsSrc(r) => resp[r].http = 400 \/ (resp[r].http = 500 /\ resp[r].upserts = <<>>)
    /\ IsDb(r) => resp[r].outcome \in {"failed", "raised"}

\* C28: a refresh or an exchange that does not end in Success leaves the
\* stored token state (os.environ, the database row) and the external store
\* as they were.
C28_FailureChangesNothing ==
    \A r \in {1} :
        ReturnedWithoutSuccess(r) =>
            /\ TokenState(env) = InitialTokenState
            /\ <<store.WITHINGS_ACCESS_TOKEN, store.WITHINGS_REFRESH_TOKEN,
                  store.WITHINGS_TOKEN_EXPIRES_AT, store.WITHINGS_TOKEN_LAST_REFRESHED>>
                  = InitialTokenState
            /\ token_record = TokenRecord(1, 1, VENDOR_EXPIRES_IN)

\* a refresh the vendor has answered with status 26 has returned, in one of
\* the three places, after time has passed
C28_Witness ==
    \E r \in {1} :
        /\ ReturnedWithoutSuccess(r)
        /\ now > 0
        /\ IsApp(r) => resp[r].status = "invalid_refresh_token"
        /\ IsSrc(r) => resp[r].answered.status = STATUS_INVALID_REFRESH_TOKEN
        /\ IsDb(r) => resp[r].outcome = "failed"

\* C30: a Success always carries an access token and a refresh token that
\* are not empty: a status-0 vendor response lacking either is never
\* reported as a success, kept as a result, or published.
C30_SuccessCarriesBothTokens ==
    /\ \A i \in 1..Len(results) :
          results[i].access_token # None /\ results[i].refresh_token # None
    /\ \A r \in Requests :
          resp[r].success
              => resp[r].result.access_token # None /\ resp[r].result.refresh_token # None
    /\ store.WITHINGS_ACCESS_TOKEN # None
    /\ store.WITHINGS_REFRESH_TOKEN # None

----------------------------------------------------------------------------

InitSched ==
    /\ _scheduler_running = FALSE
    /\ _scheduler_task = None
    /\ task = [t \in TaskIds |-> NoTask]
    /\ cycles = 0
    /\ last_cycle = [logged |-> "none", rejected_token |-> FALSE]
    /\ sched_sent = <<>>
    /\ sched_log = "none"

Init ==
    /\ InitSched
    /\ now = 0
    /\ env \in Environments
    /\ store = [WITHINGS_ACCESS_TOKEN |-> env.WITHINGS_ACCESS_TOKEN,
                WITHINGS_REFRESH_TOKEN |-> env.WITHINGS_REFRESH_TOKEN,
                WITHINGS_TOKEN_EXPIRES_AT |-> env.WITHINGS_TOKEN_EXPIRES_AT,
                WITHINGS_TOKEN_LAST_REFRESHED |-> env.WITHINGS_TOKEN_LAST_REFRESHED]
    /\ InitData
    /\ issued = 1
    /\ rejected = {}
    /\ results = <<>>
    /\ req = [r \in Requests |-> Idle]
    /\ resp = [r \in Requests |-> NoResponse]

\* the scheduler's API and the steps of its task
NextSched ==
    \/ start_scheduler
    \/ stop_scheduler
    \/ \E t \in TaskIds : TaskStarts(t)
    \/ \E t \in TaskIds : TimerFires(t)
    \/ \E t \in TaskIds : TaskWakes(t)
    \/ \E t \in TaskIds : TaskCancelled(t)

\* POST /admin/token/refresh of app/routes/admin.py, for the requests S
NextAdmin(S) ==
    \/ \E r \in S : refresh_tokens(r)
    \/ \E r \in S : refresh_tokens_vendor_replies(r)
    \/ \E r \in S : refresh_tokens_railway_replies(r)
    \/ \E r \in S : refresh_tokens_deploy_replies(r)
    \/ Tick

\* the four gated operations of app/routes/admin.py, for the requests S
NextOps(S) ==
    \/ NextAdmin(S)
    \/ \E r \in S : get_token_status(r)
    \/ \E r \in S : get_authorization_url(r)
    \/ \E r \in S : exchange_authorization_code(r)
    \/ \E r \in S : exchange_vendor_replies(r)
    \/ \E r \in S : exchange_railway_replies(r)

\* the scheduler alone
SpecSched == Init /\ [][NextSched]_vars

\* the event loop runs every task that is ready and fires every timer
FairSpecSched ==
    /\ SpecSched
    /\ WF_vars(\E t \in TaskIds : TaskStarts(t))
    /\ WF_vars(\E t \in TaskIds : TimerFires(t))
    /\ WF_vars(\E t \in TaskIds : TaskWakes(t))
    /\ WF_vars(\E t \in TaskIds : TaskCancelled(t))

\* the admin surface of app/routes/admin.py alone, with concurrent requests
SpecAdmin == Init /\ [][NextAdmin(Requests)]_vars

\* the application of app/main.py: the scheduler and one admin request
Next == NextSched \/ NextAdmin({1})

Spec == Init /\ [][Next]_vars

\* the configurations of the Withings credentials a process can start with
WithingsConfigs ==
    {[WITHINGS_CLIENT_ID |-> cid, WITHINGS_CLIENT_SECRET |-> secret,
      WITHINGS_REFRESH_TOKEN |-> rt]
       : cid \in {None, 1}, secret \in {None, 1}, rt \in {None, 1}}

\* an environment of Environments with the Withings credentials of w
WithWithingsConfig(e, w) ==
    [e EXCEPT !.WITHINGS_CLIENT_ID = w.WITHINGS_CLIENT_ID,
              !.WITHINGS_CLIENT_SECRET = w.WITHINGS_CLIENT_SECRET,
              !.WITHINGS_REFRESH_TOKEN = w.WITHINGS_REFRESH_TOKEN]

\* WithingsTokenRefreshService alone, called by the requests of Requests
InitService ==
    /\ InitSched
    /\ now = 0
    /\ env \in {WithWithingsConfig(e, w) : e \in Environments, w \in WithingsConfigs}
    /\ store = [WITHINGS_ACCESS_TOKEN |-> env.WITHINGS_ACCESS_TOKEN,
                WITHINGS_REFRESH_TOKEN |-> env.WITHINGS_REFRESH_TOKEN,
                WITHINGS_TOKEN_EXPIRES_AT |-> env.WITHINGS_TOKEN_EXPIRES_AT,
                WITHINGS_TOKEN_LAST_REFRESHED |-> env.WITHINGS_TOKEN_LAST_REFRESHED]
    /\ InitData
    /\ issued = 1
    /\ rejected = {}
    /\ results = <<>>
    /\ req = [r \in Requests |-> SvcIdle]
    /\ resp = [r \in Requests |-> NoSvcResponse]

NextService ==
    \/ \E r \in {1} : service_refresh_token(r)
    \/ \E r \in {1} : service_exchange_authorization_code(r)
    \/ \E r \in {1} : service_post_ends(r)
    \/ Tick

SpecService == InitService /\ [][NextService]_vars

\* the configurations of the Railway identifiers a process can start with
RailwayConfigs ==
    {[RAILWAY_API_TOKEN |-> rat, RAILWAY_PROJECT_ID |-> pid,
      RAILWAY_SERVICE_ID |-> sid, RAILWAY_ENVIRONMENT_ID |-> eid]
       : rat \in {None, 1}, pid \in {None, 1}, sid \in {None, 1}, eid \in {None, 1}}

\* an environment of Environments with the Railway identifiers of y
WithRailwayConfig(e, y) ==
    [e EXCEPT !.RAILWAY_API_TOKEN = y.RAILWAY_API_TOKEN,
              !.RAILWAY_PROJECT_ID = y.RAILWAY_PROJECT_ID,
              !.RAILWAY_SERVICE_ID = y.RAILWAY_SERVICE_ID,
              !.RAILWAY_ENVIRONMENT_ID = y.RAILWAY_ENVIRONMENT_ID]

\* RailwayClient alone, called by the requests of Requests
InitPublish ==
    /\ InitSched
    /\ now = 0
    /\ env \in {WithRailwayConfig(e, y) : e \in Environments, y \in RailwayConfigs}
    /\ store = [WITHINGS_ACCESS_TOKEN |-> env.WITHINGS_ACCESS_TOKEN,
                WITHINGS_REFRESH_TOKEN |-> env.WITHINGS_REFRESH_TOKEN,
                WITHINGS_TOKEN_EXPIRES_AT |-> env.WITHINGS_TOKEN_EXPIRES_AT,
                WITHINGS_TOKEN_LAST_REFRESHED |-> env.WITHINGS_TOKEN_LAST_REFRESHED]
    /\ InitData
    /\ issued = 1
    /\ rejected = {}
    /\ results = <<>>
    /\ req = [r \in Requests |-> PubIdle]
    /\ resp = [r \in Requests |-> NoPubResponse]

NextPublish ==
    \/ \E r \in Requests : railway_update_environment_variables(r)
    \/ \E r \in Requests : railway_trigger_deployment(r)
    \/ \E r \in Requests : railway_post_ends(r)
    \/ Tick

SpecPublish == InitPublish /\ [][NextPublish]_vars

\* the configurations of the admin gate a process can start with
AdminConfigs ==
    {[ADMIN_API_TOKEN |-> token, ENVIRONMENT |-> environment]
       : token \in {None, 1}, environment \in {"production", "development"}}

\* an environment of Environments with the gate configuration of a
WithAdminConfig(e, a) ==
    [e EXCEPT !.ADMIN_API_TOKEN = a.ADMIN_API_TOKEN, !.ENVIRONMENT = a.ENVIRONMENT]

\* the admin surface of app/routes/admin.py, one request, under every
\* configuration of the gate
InitGate ==
    /\ InitSched
    /\ now = 0
    /\ env \in {WithAdminConfig(e, a) : e \in Environments, a \in AdminConfigs}
    /\ store = [WITHINGS_ACCESS_TOKEN |-> env.WITHINGS_ACCESS_TOKEN,
                WITHINGS_REFRESH_TOKEN |-> env.WITHINGS_REFRESH_TOKEN,
                WITHINGS_TOKEN_EXPIRES_AT |-> env.WITHINGS_TOKEN_EXPIRES_AT,
                WITHINGS_TOKEN_LAST_REFRESHED |-> env.WITHINGS_TOKEN_LAST_REFRESHED]
    /\ InitData
    /\ issued = 1
    /\ rejected = {}
    /\ results = <<>>
    /\ req = [r \in Requests |-> Idle]
    /\ resp = [r \in Requests |-> NoResponse]

SpecGate == InitGate /\ [][NextOps({1})]_vars

\* should_refresh_now and get_next_refresh_time alone, called as time passes
InitRefreshTime ==
    /\ InitSched
    /\ now = 0
    /\ env \in Environments
    /\ store = [WITHINGS_ACCESS_TOKEN |-> env.WITHINGS_ACCESS_TOKEN,
                WITHINGS_REFRESH_TOKEN |-> env.WITHINGS_REFRESH_TOKEN,
                WITHINGS_TOKEN_EXPIRES_AT |-> env.WITHINGS_TOKEN_EXPIRES_AT,
                WITHINGS_TOKEN_LAST_REFRESHED |-> env.WITHINGS_TOKEN_LAST_REFRESHED]
    /\ InitData
    /\ issued = 1
    /\ rejected = {}
    /\ results = <<>>
    /\ req = [r \in Requests |-> NoTimeCall]
    /\ resp = [r \in Requests |-> NoTimeResponse]

NextRefreshTime ==
    \/ \E r \in {1} : call_should_refresh_now(r)
    \/ Tick
    \/ Wait

SpecRefreshTime == InitRefreshTime /\ [][NextRefreshTime]_vars

\* a refresh or an exchange by caller 1, and should_refresh_now called by
\* caller 2 with the expiry of its result, as time passes
InitExpiry ==
    /\ InitSched
    /\ now = 0
    /\ env \in Environments
    /\ store = [WITHINGS_ACCESS_TOKEN |-> env.WITHINGS_ACCESS_TOKEN,
                WITHINGS_REFRESH_TOKEN |-> env.WITHINGS_REFRESH_TOKEN,
                WITHINGS_TOKEN_EXPIRES_AT |-> env.WITHINGS_TOKEN_EXPIRES_AT,
                WITHINGS_TOKEN_LAST_REFRESHED |-> env.WITHINGS_TOKEN_LAST_REFRESHED]
    /\ InitData
    /\ issued = 1
    /\ rejected = {}
    /\ results = <<>>
    /\ req = [r \in Requests |-> IF r = 1 THEN SvcIdle ELSE NoTimeCall]
    /\ resp = [r \in Requests |-> IF r = 1 THEN NoSvcResponse ELSE NoTimeResponse]

NextExpiry ==
    \/ \E r \in {1} : service_refresh_token(r)
    \/ \E r \in {1} : service_exchange_authorization_code(r)
    \/ \E r \in {1} : service_post_ends(r)
    \/ \E r \in {2} : should_refresh_after(r, 1)
    \/ Tick
    \/ Wait

SpecExpiry == InitExpiry /\ [][NextExpiry]_vars

\* what is logged and shown of an access token of every length
InitLogging ==
    /\ InitSched
    /\ now = 0
    /\ env \in Environments
    /\ store = [WITHINGS_ACCESS_TOKEN |-> env.WITHINGS_ACCESS_TOKEN,
                WITHINGS_REFRESH_TOKEN |-> env.WITHINGS_REFRESH_TOKEN,
                WITHINGS_TOKEN_EXPIRES_AT |-> env.WITHINGS_TOKEN_EXPIRES_AT,
                WITHINGS_TOKEN_LAST_REFRESHED |-> env.WITHINGS_TOKEN_LAST_REFRESHED]
    /\ InitData
    /\ issued = 1
    /\ rejected = {}
    /\ results = <<>>
    /\ \E len \in 1..MaxTokenLength, filtered \in BOOLEAN :
          req = [r \in Requests |->
                    LogIdle(TokenString(env.WITHINGS_ACCESS_TOKEN, len), filtered)]
    /\ resp = [r \in Requests |-> NoLog]

NextLogging ==
    \/ \E r \in {1} : fetch_v1_metrics(r)
    \/ \E r \in {1} : to_dict(r)

SpecLogging == InitLogging /\ [][NextLogging]_vars

\* One refresh or exchange in each of the three places that hold tokens: the
\* admin routes of app/, the admin route of src/, and the database of src/.
\* The process is one of the three; request 1 is its only request.
InitFrame ==
    /\ InitSched
    /\ now = 0
    /\ env \in Environments
    /\ store = [WITHINGS_ACCESS_TOKEN |-> env.WITHINGS_ACCESS_TOKEN,
                WITHINGS_REFRESH_TOKEN |-> env.WITHINGS_REFRESH_TOKEN,
                WITHINGS_TOKEN_EXPIRES_AT |-> env.WITHINGS_TOKEN_EXPIRES_AT,
                WITHINGS_TOKEN_LAST_REFRESHED |-> env.WITHINGS_TOKEN_LAST_REFRESHED]
    /\ InitData
    /\ issued = 1
    /\ rejected = {}
    /\ results = <<>>
    /\ \E variant \in {"app", "src", "db"} :
          /\ req = [r \in Requests |-> IF variant = "app" THEN Idle
                                        ELSE IF variant = "src" THEN SrcIdle
                                        ELSE DbIdle]
          /\ resp = [r \in Requests |-> IF variant = "app" THEN NoResponse
                                         ELSE IF variant = "src" THEN NoSrcResponse
                                         ELSE NoDbResponse]

NextFrame ==
    \/ IsApp(1) /\ NextOps({1})
    \/ IsSrc(1) /\ \E r \in {1} : src_refresh_token(r)
    \/ IsSrc(1) /\ \E r \in {1} : VendorAnswers(r)
    \/ IsSrc(1) /\ \E r \in {1} : src_refresh_token_reply(r)
    \/ IsSrc(1) /\ \E r \in {1} : src_persist_access_replies(r)
    \/ IsSrc(1) /\ \E r \in {1} : src_persist_refresh_replies(r)
    \/ IsDb(1) /\ \E r \in {1} : get_valid_token(r)
    \/ IsDb(1) /\ \E r \in {1} : sync_user(r)
    \/ IsDb(1) /\ \E r \in {1} : db_post_ends(r)
    \/ Wait

SpecFrame == InitFrame /\ [][NextFrame]_vars

\* the two services of app/services together: caller 1 calls the token
\* refresh service, caller 2 the Railway client
InitServices ==
    /\ InitSched
    /\ now = 0
    /\ env \in {WithWithingsConfig(e, w) : e \in Environments, w \in WithingsConfigs}
    /\ store = [WITHINGS_ACCESS_TOKEN |-> env.WITHINGS_ACCESS_TOKEN,
                WITHINGS_REFRESH_TOKEN |-> env.WITHINGS_REFRESH_TOKEN,
                WITHINGS_TOKEN_EXPIRES_AT |-> env.WITHINGS_TOKEN_EXPIRES_AT,
                WITHINGS_TOKEN_LAST_REFRESHED |-> env.WITHINGS_TOKEN_LAST_REFRESHED]
    /\ InitData
    /\ issued = 1
    /\ rejected = {}
    /\ results = <<>>
    /\ req = [r \in Requests |-> IF r = 1 THEN SvcIdle ELSE PubIdle]
    /\ resp = [r \in Requests |-> IF r = 1 THEN NoSvcResponse ELSE NoPubResponse]

NextServices ==
    \/ \E r \in {1} : service_refresh_token(r)
    \/ \E r \in {1} : service_exchange_authorization_code(r)
    \/ \E r \in {1} : service_post_ends(r)
    \/ \E r \in {2} : railway_update_environment_variables(r)
    \/ \E r \in {2} : railway_trigger_deployment(r)
    \/ \E r \in {2} : railway_post_ends(r)

SpecServices == InitServices /\ [][NextServices]_vars

\* the admin surface of src/routes/admin.py, with concurrent requests
InitSrc ==
    /\ InitSched
    /\ now = 0
    /\ env \in Environments
    /\ store = [WITHINGS_ACCESS_TOKEN |-> env.WITHINGS_ACCESS_TOKEN,
                WITHINGS_REFRESH_TOKEN |-> env.WITHINGS_REFRESH_TOKEN,
                WITHINGS_TOKEN_EXPIRES_AT |-> env.WITHINGS_TOKEN_EXPIRES_AT,
                WITHINGS_TOKEN_LAST_REFRESHED |-> env.WITHINGS_TOKEN_LAST_REFRESHED]
    /\ InitData
    /\ issued = 1
    /\ rejected = {}
    /\ results = <<>>
    /\ req = [r \in Requests |-> SrcIdle]
    /\ resp = [r \in Requests |-> NoSrcResponse]

NextSrc ==
    \/ \E r \in Requests : src_refresh_token(r)
    \/ \E r \in Requests : VendorAnswers(r)
    \/ \E r \in Requests : src_refresh_token_reply(r)
    \/ \E r \in Requests : src_persist_access_replies(r)
    \/ \E r \in Requests : src_persist_refresh_replies(r)
    \/ Tick

SpecSrc == InitSrc /\ [][NextSrc]_vars

\* the process of src/: the data routes, one manual refresh, and time
NextData ==
    \/ fetch_withings_data
    \/ Wait
    \/ \E r \in {1} : src_refresh_token(r)
    \/ \E r \in {1} : VendorAnswers(r)
    \/ \E r \in {1} : src_refresh_token_reply(r)
    \/ \E r \in {1} : src_persist_access_replies(r)
    \/ \E r \in {1} : src_persist_refresh_replies(r)

SpecData == InitSrc /\ [][NextData]_vars

====
